---- MODULE Spec2Model ----
(***************************************************************************)
(* Change-aware caching, action validation and response parsing of the     *)
(* CRM automation pipeline (brevo_data_gatherer, generate_deal_summary,    *)
(* brevo_sales.recommendations).                                           *)
(*                                                                         *)
(* Time is counted in minutes since an epoch (UTC = local time).  Digests  *)
(* (SHA-256 / MD5 prefixes) are modelled as injective on the text they are *)
(* computed from: a digest is the tagged canonical text itself.            *)
(***************************************************************************)
EXTENDS Integers, Sequences, FiniteSets, TLC

VARIABLES
    inst,       \* the policy instance (database file) this behaviour exercises
    now,        \* wall clock, minutes
    rawStore,   \* rows of table cache            (brevo_data_gatherer)
    sumStore,   \* rows of table summary_cache    (generate_deal_summary)
    recStore,   \* rows of table recommendation_cache (brevo_sales)
    ttlConf,    \* SummaryCache.ttl_hours / RecommendationCache.ttl_minutes
    last,       \* the last operation performed: its name, arguments and result
    arg,        \* the argument of the one constructor or parse call of a behaviour
    parsing,    \* ActionParser.parse: where the call stands and the tiers it tried
    debugFile,  \* content of /tmp/claude_response_debug.txt
    calls,      \* concurrent callers of one cache: where each call stands
    commits     \* the rows committed to the store so far, in commit order

vars == <<inst, now, rawStore, sumStore, recStore, ttlConf, last, arg, parsing, debugFile,
          calls, commits>>

\* what a completed cache operation never touches
callVars == <<arg, parsing, debugFile, calls, commits>>

NoHash == << >>      \* None in a hash column
NoKey == << >>       \* None for a cache key

\* ------------------------------------------------------------------ bounds
MaxTtl == 1         \* explicit TTLs handed to the caches: 1..MaxTtl minutes
MaxHours == 1       \* SummaryCache(ttl_hours) in 1..MaxHours
MaxFields == 6      \* business fields of a primary record
MaxEntities == 6    \* related entities of one type in a snapshot

MinutesPerHour == 60
MinutesPerDay == 1440

\* The instants the clock visits: around every TTL boundary and around midnight.
Instants(i) ==
    CASE i = "raw" -> (0 .. MaxTtl + 1) \cup { MinutesPerDay + k : k \in 0 .. 1 }
      [] i = "summary" -> {0} \cup { h * MinutesPerHour - k : h \in 1..MaxHours, k \in {0, 1} }
      [] i \in {"recommendation", "recommender"} -> 0 .. MaxTtl + 1

\* ------------------------------------------------------------------ timestamps as text
\* datetime.isoformat(): "YYYY-MM-DDTHH:MM:SS", as <<date, separator, time of day>>
IsoFormat(t) == << t \div MinutesPerDay, "T", t % MinutesPerDay >>

\* SQLite datetime('now'): "YYYY-MM-DD HH:MM:SS"
SqliteDatetimeNow(t) == << t \div MinutesPerDay, " ", t % MinutesPerDay >>

\* datetime.fromisoformat()
FromIsoFormat(s) == s[1] * MinutesPerDay + s[3]

CharCode(c) == CASE c = "T" -> 84 [] c = " " -> 32

\* SQLite compares two TEXT values byte by byte (BINARY collation); the date and
\* the time of day are zero-padded, so they compare as their numbers do.
TextGreater(a, b) ==
    \/ a[1] > b[1]
    \/ a[1] = b[1] /\ CharCode(a[2]) > CharCode(b[2])
    \/ a[1] = b[1] /\ CharCode(a[2]) = CharCode(b[2]) /\ a[3] > b[3]

TextLessEq(a, b) == ~TextGreater(a, b)

\* ------------------------------------------------------------------ raw-entity cache
RawKeys == { <<"brevo_crm", "deal", "e1">> }     \* (source, entity_type, entity_id)
RawData == {"d1", "d2"}

\* CacheManager.TTL_CONFIG.get(source, 60)
TtlConfig(source) ==
    CASE source = "brevo_crm" -> 15
      [] source = "brevo_notes" -> 5
      [] source = "brevo_tasks" -> 5
      [] source = "linkedin" -> 1440
      [] source = "web_search" -> 1440
      [] OTHER -> 60

_make_cache_key(source, entity_type, entity_id) == <<source, entity_type, entity_id>>

\* json.dumps(data, sort_keys=True) then SHA-256
_calculate_hash(data) == <<"sha256", data>>

\* SELECT * FROM cache WHERE cache_key = ? AND expires_at > datetime('now')
RawSelectValid(store, t, cache_key) ==
    { r \in store : r.cache_key = cache_key
                    /\ TextGreater(r.expires_at, SqliteDatetimeNow(t)) }

\* cursor.fetchone(): the row found as <<row>>, or <<>> for None
RawFetchOne(store, t, cache_key) ==
    LET rows == RawSelectValid(store, t, cache_key)
    IN  IF rows # {} THEN << CHOOSE r \in rows : TRUE >> ELSE << >>

\* (mutant) a record whose hash is not the hash of the row it was read from
RecordWithoutHash(fetched) ==
    IF fetched # << >>
    THEN << [data |-> fetched[1].data_json, hash |-> NoHash,
             cached_at |-> fetched[1].created_at, expires_at |-> fetched[1].expires_at] >>
    ELSE << >>

\* the dict CacheManager.get builds from the row it fetched (None: <<>>)
RawRecord(fetched) ==
    IF fetched # << >>
    THEN LET row == fetched[1]
         IN  << [data |-> row.data_json, hash |-> row.data_hash,
                 cached_at |-> row.created_at, expires_at |-> row.expires_at] >>
    ELSE << >>

\* CacheManager.get: the cached record as <<record>>, or <<>> for None
RawGetResult(store, t, source, entity_type, entity_id) ==
    RawRecord(RawFetchOne(store, t, _make_cache_key(source, entity_type, entity_id)))

\* CacheManager.has_changed
RawHasChanged(store, t, source, entity_type, entity_id, current_data) ==
    LET cached == RawGetResult(store, t, source, entity_type, entity_id)
    IN  IF cached = << >> THEN TRUE
        ELSE _calculate_hash(current_data) # cached[1].hash

\* (mutant) a plain INSERT that leaves the old row of the key where it is
InsertKeepingOld(store, row) == store \cup {row}

\* INSERT OR REPLACE INTO cache ... : the row of the same primary key is replaced
RawInsertOrReplace(store, row) ==
    { r \in store : r.cache_key # row.cache_key } \cup {row}

\* DELETE FROM cache WHERE expires_at <= datetime('now')
RawExpiredRows(store, t) ==
    { r \in store : TextLessEq(r.expires_at, SqliteDatetimeNow(t)) }

Idle == [op |-> "idle"]
NoArg == << >>
NotParsing == [pc |-> "idle", tried |-> << >>]
NoFile == << >>

\* the callers that may use one cache file at the same time
Procs == {"p1", "p2"}
NoCall == [pc |-> "idle"]

\* (mutant) a lookup that deletes the expired rows it meets
GetPurging(source, entity_type, entity_id) ==
    /\ inst = "raw"
    /\ last' = [op |-> "get", source |-> source, entity_type |-> entity_type,
                entity_id |-> entity_id,
                res |-> RawGetResult(rawStore, now, source, entity_type, entity_id)]
    /\ rawStore' = rawStore \ RawExpiredRows(rawStore, now)
    /\ UNCHANGED <<inst, now, sumStore, recStore, ttlConf, callVars>>

Get(source, entity_type, entity_id) ==
    /\ inst = "raw"
    /\ last' = [op |-> "get", source |-> source, entity_type |-> entity_type,
                entity_id |-> entity_id,
                res |-> RawGetResult(rawStore, now, source, entity_type, entity_id)]
    /\ UNCHANGED <<inst, now, rawStore, sumStore, recStore, ttlConf, callVars>>

\* CacheManager.set: the row it computes (ttl_arg 0: ttl_minutes is None)
RawRow(t, source, entity_type, entity_id, data, ttl_arg) ==
    LET cache_key == _make_cache_key(source, entity_type, entity_id)
        data_hash == _calculate_hash(data)
        ttl_minutes == IF ttl_arg = 0 THEN TtlConfig(source) ELSE ttl_arg
        expires_at == t + ttl_minutes
    IN  [cache_key |-> cache_key, source |-> source,
         entity_type |-> entity_type, entity_id |-> entity_id,
         data_json |-> data, data_hash |-> data_hash,
         ttl_minutes |-> ttl_minutes,
         expires_at |-> IsoFormat(expires_at),
         created_at |-> t]

Set(source, entity_type, entity_id, data, ttl_arg) ==
    /\ inst = "raw"
    /\ LET row == RawRow(now, source, entity_type, entity_id, data, ttl_arg)
       IN  /\ rawStore' = RawInsertOrReplace(rawStore, row)
           /\ last' = [op |-> "set", source |-> source, entity_type |-> entity_type,
                       entity_id |-> entity_id, res |-> row.data_hash]
    /\ UNCHANGED <<inst, now, sumStore, recStore, ttlConf, callVars>>

HasChanged(source, entity_type, entity_id, current_data) ==
    /\ inst = "raw"
    /\ last' = [op |-> "has_changed", source |-> source, entity_type |-> entity_type,
                entity_id |-> entity_id, data |-> current_data,
                res |-> RawHasChanged(rawStore, now, source, entity_type,
                                      entity_id, current_data)]
    /\ UNCHANGED <<inst, now, rawStore, sumStore, recStore, ttlConf, callVars>>

CleanupExpired ==
    /\ inst = "raw"
    /\ LET gone == RawExpiredRows(rawStore, now)
       IN  /\ rawStore' = rawStore \ gone
           /\ last' = [op |-> "cleanup_expired", res |-> Cardinality(gone)]
    /\ UNCHANGED <<inst, now, sumStore, recStore, ttlConf, callVars>>

\* CacheManager.invalidate: DELETE FROM cache WHERE cache_key = ?
Invalidate(source, entity_type, entity_id) ==
    /\ inst = "raw"
    /\ LET cache_key == _make_cache_key(source, entity_type, entity_id)
       IN  rawStore' = { r \in rawStore : r.cache_key # cache_key }
    /\ last' = [op |-> "invalidate", source |-> source, entity_type |-> entity_type,
                entity_id |-> entity_id]
    /\ UNCHANGED <<inst, now, sumStore, recStore, ttlConf, callVars>>

\* CacheManager.invalidate_all: one source if given ("": None), else every row
InvalidateAll(source) ==
    /\ inst = "raw"
    /\ rawStore' = IF source # "" THEN { r \in rawStore : r.source # source } ELSE {}
    /\ last' = [op |-> "invalidate_all", source |-> source]
    /\ UNCHANGED <<inst, now, sumStore, recStore, ttlConf, callVars>>

\* The clock moves on to a later instant.
Advance ==
    /\ \E t \in Instants(inst) : t > now /\ now' = t
    /\ last' = Idle
    /\ UNCHANGED <<inst, rawStore, sumStore, recStore, ttlConf, callVars>>

\* ------------------------------------------------------------------ snapshots
\* An enrichment result: a primary record, and run metadata on top level.
Snap(stage, upd, meta) ==
    [primary_type |-> "deal",
     primary_record |-> [id |-> "deal-1", deal_stage |-> stage, updated_at |-> upd],
     metadata |-> [enrichment_timestamp |-> meta]]

\* a base snapshot, a business change of it, a run-metadata change of it
Snapshots == { Snap("won", "t1", "r1"), Snap("lost", "t1", "r1"), Snap("won", "t1", "r2") }
Prompts == {"p1", "p2"}
Responses == {"", "markdown"}

\* ------------------------------------------------------------------ summary cache
IGNORED_FIELDS ==
    { "updated_at", "updatedAt", "modified_at", "modifiedAt",
      "created_at", "createdAt", "last_fetched", "lastFetched",
      "last_modified", "lastModified", "timestamp", "fetched_at",
      "_metadata", "cache_time", "cacheTime",
      "metadata", "enrichment_timestamp", "duration_ms", "cache_hit_rate" }

\* clean_dict on one level of a dict
CleanLevel(d) == [k \in (DOMAIN d) \ IGNORED_FIELDS |-> d[k]]

\* clean_dict, recursively, on a snapshot: its nested dicts are primary_record
\* and the dicts of lists of dicts related_entities and interaction_history
clean_dict(d) ==
    LET top == CleanLevel(d)
    IN  [k \in DOMAIN top |->
            IF k = "primary_record" THEN CleanLevel(top[k])
            ELSE IF k \in {"related_entities", "interaction_history"}
            THEN [c \in DOMAIN top[k] |->
                     [i \in DOMAIN top[k][c] |-> CleanLevel(top[k][c][i])]]
            ELSE top[k]]

\* SummaryCache._compute_data_hash
SummaryDataHash(enriched_data) == <<"sha256", clean_dict(enriched_data)>>

\* SummaryCache._compute_prompt_hash
_compute_prompt_hash(prompt_template) == <<"md5", prompt_template>>

\* SummaryCache._get_cache_key
SummaryCacheKey(enriched_data, prompt_hash) ==
    LET primary_type == enriched_data.primary_type
        primary_record == enriched_data.primary_record
        entity_id == IF primary_type \in {"deal", "contact", "company"}
                     THEN primary_record.id ELSE "unknown"
    IN  <<primary_type, entity_id, prompt_hash>>

\* SummaryCache.get_cached_summary: <<>> is None, else <<(summary, is_fresh, previous)>>
GetCachedSummaryResult(store, t, ttl_hours, enriched_data, prompt_template) ==
    LET prompt_hash == _compute_prompt_hash(prompt_template)
        cache_key == SummaryCacheKey(enriched_data, prompt_hash)
        data_hash == SummaryDataHash(enriched_data)
        rows == { r \in store : r.cache_key = cache_key }
    IN  IF rows = {} THEN << >>
        ELSE LET row == CHOOSE r \in rows : TRUE
                 generated_at == FromIsoFormat(row.generated_at)
                 data_unchanged == (row.enriched_data_hash = data_hash)
                 age == t - generated_at
                 is_fresh == age < ttl_hours * MinutesPerHour
             IN  IF data_unchanged /\ is_fresh
                 THEN << [artifact |-> row.summary_json, is_fresh |-> TRUE,
                          previous |-> << >>] >>
                 ELSE << [artifact |-> row.summary_json, is_fresh |-> FALSE,
                          previous |-> << row.enriched_data_json >>] >>

\* SummaryCache.save_summary: the store after INSERT OR REPLACE
SaveSummaryStore(store, t, enriched_data, summary, prompt_template) ==
    LET prompt_hash == _compute_prompt_hash(prompt_template)
        cache_key == SummaryCacheKey(enriched_data, prompt_hash)
        data_hash == SummaryDataHash(enriched_data)
        row == [cache_key |-> cache_key, enriched_data_hash |-> data_hash,
                prompt_hash |-> prompt_hash, enriched_data_json |-> enriched_data,
                summary_json |-> summary, generated_at |-> IsoFormat(t)]
    IN  { r \in store : r.cache_key # cache_key } \cup {row}

GetCachedSummary(enriched_data, prompt_template) ==
    /\ inst = "summary"
    /\ last' = [op |-> "get_cached_summary", enriched_data |-> enriched_data,
                prompt |-> prompt_template,
                res |-> GetCachedSummaryResult(sumStore, now, ttlConf,
                                               enriched_data, prompt_template)]
    /\ UNCHANGED <<inst, now, rawStore, sumStore, recStore, ttlConf, callVars>>

\* DealSummarizer._compute_data_hash: no field is stripped
SummarizerDataHash(enriched_data) == <<"sha256", enriched_data>>

\* The DealSummary built from a generated markdown text
NewSummary(t, enriched_data, markdown_text) ==
    [deal_id |-> enriched_data.primary_record.id,
     executive_summary |-> markdown_text,
     generated_at |-> IsoFormat(t),
     confidence_score |-> 1,
     data_version |-> SummarizerDataHash(enriched_data),
     is_cached |-> FALSE]

\* (mutant) a fallback summary flagged as served from the cache
FallbackFlaggedCached(t, enriched_data) ==
    [deal_id |-> enriched_data.primary_record.id,
     executive_summary |-> "Summary generation failed. Please review raw data.",
     generated_at |-> IsoFormat(t),
     confidence_score |-> 0,
     data_version |-> NoHash,
     is_cached |-> TRUE]

\* DealSummarizer._build_fallback_summary
_build_fallback_summary(t, enriched_data) ==
    [deal_id |-> enriched_data.primary_record.id,
     executive_summary |-> "Summary generation failed. Please review raw data.",
     generated_at |-> IsoFormat(t),
     confidence_score |-> 0,
     data_version |-> NoHash,
     is_cached |-> FALSE]

\* DealSummarizer.summarize as a function of the store it finds: the summary
\* returned, the store left behind, the generation calls made and what was diffed.
SummarizeOutcome(store, t, ttl_hours, use_cache, enriched_data, prompt_template, force_refresh, response) ==
    LET cache_result == IF use_cache /\ ~force_refresh
                        THEN GetCachedSummaryResult(store, t, ttl_hours,
                                                    enriched_data, prompt_template)
                        ELSE << >>
    IN  IF cache_result # << >> /\ cache_result[1].is_fresh
        THEN [summary |-> [cache_result[1].artifact EXCEPT !.is_cached = TRUE],
              store |-> store, gen_calls |-> 0, diffed |-> << >>,
              lookup |-> cache_result]
        ELSE LET diffed == IF cache_result # << >> THEN cache_result[1].previous
                           ELSE << >>
             IN  IF response = ""
                 THEN [summary |-> _build_fallback_summary(t, enriched_data),
                       store |-> store, gen_calls |-> 1, diffed |-> diffed,
                       lookup |-> cache_result]
                 ELSE LET summary == NewSummary(t, enriched_data, response)
                      IN  [summary |-> summary,
                           store |-> IF use_cache
                                     THEN SaveSummaryStore(store, t, enriched_data,
                                                           summary, prompt_template)
                                     ELSE store,
                           gen_calls |-> 1, diffed |-> diffed,
                           lookup |-> cache_result]

Summarize(use_cache, enriched_data, prompt_template, force_refresh, response) ==
    /\ inst = "summary"
    /\ LET out == SummarizeOutcome(sumStore, now, ttlConf, use_cache, enriched_data,
                                   prompt_template, force_refresh, response)
       IN  /\ sumStore' = out.store
           /\ last' = [op |-> "summarize", enriched_data |-> enriched_data,
                       prompt |-> prompt_template, use_cache |-> use_cache,
                       force_refresh |-> force_refresh,
                       res |-> out.summary, gen_calls |-> out.gen_calls,
                       generated |-> IF out.gen_calls = 1 THEN << response >> ELSE << >>,
                       diffed |-> out.diffed, lookup |-> out.lookup]
    /\ UNCHANGED <<inst, now, rawStore, recStore, ttlConf, callVars>>

SaveSummary(enriched_data, prompt_template, markdown_text) ==
    /\ inst = "summary"
    /\ LET summary == NewSummary(now, enriched_data, markdown_text)
       IN  /\ sumStore' = SaveSummaryStore(sumStore, now, enriched_data, summary,
                                           prompt_template)
           /\ last' = [op |-> "save_summary", enriched_data |-> enriched_data,
                       prompt |-> prompt_template, res |-> summary]
    /\ UNCHANGED <<inst, now, rawStore, recStore, ttlConf, callVars>>

\* clear_cache of both caches: DELETE ... WHERE cache_key = ?, or DELETE of
\* every row when no key is given (NoKey: None)
ClearedStore(store, cache_key) ==
    IF cache_key # NoKey THEN { r \in store : r.cache_key # cache_key } ELSE {}

\* SummaryCache.clear_cache
SummaryClearCache(cache_key) ==
    /\ inst = "summary"
    /\ sumStore' = ClearedStore(sumStore, cache_key)
    /\ last' = [op |-> "clear_cache", cache_key |-> cache_key]
    /\ UNCHANGED <<inst, now, rawStore, recStore, ttlConf, callVars>>

\* ------------------------------------------------------------------ recommendation cache
DealIds == {"deal-1"}
SummaryVersions == { NoHash, <<"sha256", "summary">> }

\* the (prompt, company context, campaign context) inputs: a base and every
\* single deviation from it; "" (like None) is falsy: no campaign context
Dependencies ==
    { <<"p1", "k1", "c1">>, <<"p2", "k1", "c1">>, <<"p1", "k2", "c1">>,
      <<"p1", "k1", "c2">>, <<"p1", "k1", "">> }

\* the inputs recommendations are stored and generated under
StoredDependencies == { <<"p1", "k1", "c1">>, <<"p1", "k1", "">> }
RecommenderDependencies == { <<"p1", "k1", "c1">> }

\* RecommendationCache._compute_hash
_compute_hash(data) == <<"sha256", data>>

\* {k: v for k, v in enriched_data.items() if k != 'metadata'}
enriched_data_stable(enriched_data) ==
    [k \in (DOMAIN enriched_data) \ {"metadata"} |-> enriched_data[k]]

CampaignHash(campaign_context) ==
    IF campaign_context # "" THEN _compute_hash(campaign_context) ELSE NoHash

\* (mutant) the campaign context left out of the key
KeyWithoutCampaign(deal_id, prompt_hash, company_context_hash, campaign_context_hash) ==
    <<"deal", deal_id, "prompt", prompt_hash, "context", company_context_hash>>

\* RecommendationCache._get_cache_key
_get_cache_key(deal_id, prompt_hash, company_context_hash, campaign_context_hash) ==
    LET base == <<"deal", deal_id, "prompt", prompt_hash, "context", company_context_hash>>
    IN  IF campaign_context_hash # NoHash
        THEN base \o <<"campaign", campaign_context_hash>>
        ELSE base

\* (mutant) the TTL is not looked at
NeverExpired(t, expires_at) == FALSE

\* is_expired = datetime.now() > expires_at
RecIsExpired(t, expires_at) == t > expires_at

\* (mutant) the summary hash is compared as well
SummaryHashMatches(row, enriched_hash, summary_hash, prompt_hash, context_hash, campaign_context, campaign_hash) ==
    /\ row.enriched_data_hash = enriched_hash
    /\ row.summary_hash = summary_hash
    /\ row.prompt_hash = prompt_hash
    /\ row.company_context_hash = context_hash
    /\ (IF campaign_context # "" THEN row.campaign_context_hash = campaign_hash ELSE TRUE)

\* hashes_match of get_cached_recommendation: summary_hash is computed and not compared
hashes_match(row, enriched_hash, summary_hash, prompt_hash, context_hash, campaign_context, campaign_hash) ==
    /\ row.enriched_data_hash = enriched_hash
    /\ row.prompt_hash = prompt_hash
    /\ row.company_context_hash = context_hash
    /\ (IF campaign_context # "" THEN row.campaign_context_hash = campaign_hash ELSE TRUE)

\* RecommendationCache.get_cached_recommendation: <<>> is None,
\* else <<(recommendation, is_fresh, previous_enriched_data)>>
GetCachedRecommendationResult(store, t, deal_id, enriched_data, summary, prompt_template, company_context, campaign_context) ==
    LET enriched_hash == _compute_hash(enriched_data_stable(enriched_data))
        prompt_hash == _compute_hash(prompt_template)
        context_hash == _compute_hash(company_context)
        campaign_hash == CampaignHash(campaign_context)
        cache_key == _get_cache_key(deal_id, prompt_hash, context_hash, campaign_hash)
        rows == { r \in store : r.cache_key = cache_key }
    IN  IF rows = {} THEN << >>
        ELSE LET row == CHOOSE r \in rows : TRUE
                 matching == hashes_match(row, enriched_hash, summary, prompt_hash,
                                          context_hash, campaign_context, campaign_hash)
                 is_expired == RecIsExpired(t, FromIsoFormat(row.expires_at))
             IN  IF matching /\ ~is_expired
                 THEN << [artifact |-> row.recommendation_json, is_fresh |-> TRUE,
                          previous |-> << >>] >>
                 ELSE << [artifact |-> row.recommendation_json, is_fresh |-> FALSE,
                          previous |-> << row.enriched_data_json >>] >>

\* RecommendationCache.save_recommendation: the store after INSERT OR REPLACE
SaveRecommendationStore(store, t, ttl_minutes, deal_id, enriched_data, summary, prompt_template, company_context, campaign_context, recommendation) ==
    LET enriched_hash == _compute_hash(enriched_data_stable(enriched_data))
        prompt_hash == _compute_hash(prompt_template)
        context_hash == _compute_hash(company_context)
        campaign_hash == CampaignHash(campaign_context)
        cache_key == _get_cache_key(deal_id, prompt_hash, context_hash, campaign_hash)
        generated_at == t
        expires_at == generated_at + ttl_minutes
        row == [cache_key |-> cache_key, enriched_data_hash |-> enriched_hash,
                summary_hash |-> summary, prompt_hash |-> prompt_hash,
                company_context_hash |-> context_hash,
                campaign_context_hash |-> campaign_hash,
                enriched_data_json |-> enriched_data, summary_json |-> summary,
                recommendation_json |-> recommendation,
                generated_at |-> IsoFormat(generated_at),
                expires_at |-> IsoFormat(expires_at)]
    IN  { r \in store : r.cache_key # cache_key } \cup {row}

\* ActionRecommender._parse_recommendations: the markdown is stored as it is
_parse_recommendations(markdown, enriched_data) ==
    [deal_id |-> enriched_data.primary_record.id,
     overall_strategy |-> markdown,
     data_version |-> <<"sha256", enriched_data>>,
     is_cached |-> FALSE]

GetCachedRecommendation(deal_id, enriched_data, summary, dep) ==
    /\ inst = "recommendation"
    /\ last' = [op |-> "get_cached_recommendation", deal_id |-> deal_id,
                enriched_data |-> enriched_data, summary |-> summary, dep |-> dep,
                res |-> GetCachedRecommendationResult(recStore, now, deal_id,
                            enriched_data, summary, dep[1], dep[2], dep[3])]
    /\ UNCHANGED <<inst, now, rawStore, sumStore, recStore, ttlConf, callVars>>

SaveRecommendation(deal_id, enriched_data, summary, dep, markdown) ==
    /\ inst = "recommendation"
    /\ LET recommendation == _parse_recommendations(markdown, enriched_data)
       IN  /\ recStore' = SaveRecommendationStore(recStore, now, ttlConf, deal_id,
                              enriched_data, summary, dep[1], dep[2], dep[3],
                              recommendation)
           /\ last' = [op |-> "save_recommendation", deal_id |-> deal_id,
                       enriched_data |-> enriched_data, summary |-> summary,
                       dep |-> dep, res |-> recommendation]
    /\ UNCHANGED <<inst, now, rawStore, sumStore, ttlConf, callVars>>

\* RecommendationCache.clear_cache
RecClearCache(cache_key) ==
    /\ inst = "recommendation"
    /\ recStore' = ClearedStore(recStore, cache_key)
    /\ last' = [op |-> "clear_cache", cache_key |-> cache_key]
    /\ UNCHANGED <<inst, now, rawStore, sumStore, ttlConf, callVars>>

DefaultSummaryTtlHours == 24
DefaultPrompt == "default"

\* ActionRecommender.recommend as a function of the stores it finds
RecommendOutcome(sstore, rstore, t, ttl_minutes, use_cache, deal_id, enriched_data, dep, force_refresh, summary_response, response) ==
    LET \* Step 3: _ensure_summary, through DealSummarizer.summarize
        sum == SummarizeOutcome(sstore, t, DefaultSummaryTtlHours, TRUE, enriched_data,
                                DefaultPrompt, FALSE, summary_response)
        summary_for_cache == sum.summary.data_version
        \* Step 4: check cache
        cache_result == IF use_cache /\ ~force_refresh
                        THEN GetCachedRecommendationResult(rstore, t, deal_id,
                                 enriched_data, summary_for_cache, dep[1], dep[2], dep[3])
                        ELSE << >>
    IN  IF cache_result # << >> /\ cache_result[1].is_fresh
        THEN [result |-> [cache_result[1].artifact EXCEPT !.is_cached = TRUE],
              sstore |-> sum.store, rstore |-> rstore,
              gen_calls |-> sum.gen_calls, lookup |-> cache_result]
        ELSE LET result == _parse_recommendations(response, enriched_data)
             IN  [result |-> result,
                  sstore |-> sum.store,
                  rstore |-> IF use_cache
                             THEN SaveRecommendationStore(rstore, t, ttl_minutes, deal_id,
                                      enriched_data, summary_for_cache,
                                      dep[1], dep[2], dep[3], result)
                             ELSE rstore,
                  gen_calls |-> sum.gen_calls + 1, lookup |-> cache_result]

Recommend(use_cache, deal_id, enriched_data, dep, force_refresh, summary_response, response) ==
    /\ inst = "recommender"
    /\ LET out == RecommendOutcome(sumStore, recStore, now, ttlConf, use_cache, deal_id,
                                   enriched_data, dep, force_refresh, summary_response,
                                   response)
       IN  /\ sumStore' = out.sstore
           /\ recStore' = out.rstore
           /\ last' = [op |-> "recommend", deal_id |-> deal_id,
                       enriched_data |-> enriched_data, dep |-> dep,
                       use_cache |-> use_cache, force_refresh |-> force_refresh,
                       res |-> out.result, gen_calls |-> out.gen_calls,
                       lookup |-> out.lookup]
    /\ UNCHANGED <<inst, now, rawStore, ttlConf, callVars>>

\* ------------------------------------------------------------------ the caches' specification
InitCache ==
    /\ inst \in {"raw", "summary", "recommendation", "recommender"}
    /\ now = 0
    /\ rawStore = {}
    /\ sumStore = {}
    /\ recStore = {}
    /\ ttlConf \in (CASE inst = "raw" -> {0}
                      [] inst = "summary" -> 1..MaxHours
                      [] inst \in {"recommendation", "recommender"} -> 1..MaxTtl)
    /\ last = Idle
    /\ arg = NoArg
    /\ parsing = NotParsing
    /\ debugFile = NoFile
    /\ calls = [p \in Procs |-> NoCall]
    /\ commits = << >>

\* lookups are also made with a snapshot in which only a timestamp inside the
\* primary record has changed
NextCache ==
    \/ Advance
    \/ \E k \in RawKeys : Get(k[1], k[2], k[3])
    \/ \E k \in RawKeys, d \in RawData, ttl \in 0..MaxTtl : Set(k[1], k[2], k[3], d, ttl)
    \/ \E k \in RawKeys, d \in RawData : HasChanged(k[1], k[2], k[3], d)
    \/ CleanupExpired
    \/ \E k \in RawKeys : Invalidate(k[1], k[2], k[3])
    \/ \E k \in RawKeys, all \in BOOLEAN : InvalidateAll(IF all THEN "" ELSE k[1])
    \/ \E e \in Snapshots \cup {Snap("won", "t2", "r1")}, p \in Prompts :
          GetCachedSummary(e, p)
    \/ \E e \in Snapshots, p \in Prompts : SaveSummary(e, p, "markdown")
    \/ \E key \in {NoKey} \cup { r.cache_key : r \in sumStore } : SummaryClearCache(key)
    \/ \E key \in {NoKey} \cup { r.cache_key : r \in recStore } : RecClearCache(key)
    \/ \E c \in BOOLEAN, e \in Snapshots, f \in BOOLEAN, r \in Responses :
          Summarize(c, e, "p1", f, r)
    \/ \E id \in DealIds, e \in Snapshots, v \in SummaryVersions, dep \in Dependencies :
          GetCachedRecommendation(id, e, v, dep)
    \/ \E id \in DealIds, dep \in StoredDependencies :
          GetCachedRecommendation(id, Snap("won", "t2", "r1"), NoHash, dep)
    \/ \E id \in DealIds, e \in Snapshots, dep \in StoredDependencies :
          SaveRecommendation(id, e, NoHash, dep, "markdown")
    \/ \E c \in BOOLEAN, id \in DealIds, e \in Snapshots, dep \in RecommenderDependencies,
          f \in BOOLEAN, sr \in Responses :
          Recommend(c, id, e, dep, f, sr, "markdown")

SpecCache == InitCache /\ [][NextCache]_vars

\* ------------------------------------------------------------------ claims on the caches
IsMiss(res) == res = << >>
IsFresh(res) == res # << >> /\ res[1].is_fresh
IsStale(res) == res # << >> /\ ~res[1].is_fresh

\* the tracked dependencies of a lookup and of a stored row, as digests
RecDeps(enriched_data, dep) ==
    << _compute_hash(enriched_data_stable(enriched_data)), _compute_hash(dep[1]),
       _compute_hash(dep[2]), CampaignHash(dep[3]) >>
RecRowDeps(r) ==
    << r.enriched_data_hash, r.prompt_hash, r.company_context_hash,
       r.campaign_context_hash >>
SumDeps(enriched_data, prompt) ==
    << SummaryDataHash(enriched_data), _compute_prompt_hash(prompt) >>
SumRowDeps(r) == << r.enriched_data_hash, r.prompt_hash >>
DiffCount(a, b) == Cardinality({ i \in 1..Len(a) : a[i] # b[i] })

RecRowExpiry(r) == FromIsoFormat(r.expires_at)
SumRowExpiry(r) == FromIsoFormat(r.generated_at) + ttlConf * MinutesPerHour

\* C1 (invalidation completeness): a lookup reports Fresh (has_changed = False for
\* the raw-entity cache) only from a stored row all of whose tracked dependencies
\* equal the lookup's; so a row that differs from the lookup in one tracked
\* dependency never makes it Fresh.
C1_InvalidationCompleteness ==
    /\ (last.op = "get_cached_recommendation" /\ IsFresh(last.res))
          => \E r \in recStore :
                /\ r.cache_key[2] = last.deal_id
                /\ RecRowDeps(r) = RecDeps(last.enriched_data, last.dep)
                /\ r.recommendation_json = last.res[1].artifact
    /\ (last.op = "get_cached_summary" /\ IsFresh(last.res))
          => \E r \in sumStore :
                /\ r.cache_key[2] = last.enriched_data.primary_record.id
                /\ SumRowDeps(r) = SumDeps(last.enriched_data, last.prompt)
                /\ r.summary_json = last.res[1].artifact
    /\ (last.op = "has_changed" /\ last.res = FALSE)
          => \E r \in rawStore :
                /\ r.cache_key = <<last.source, last.entity_type, last.entity_id>>
                /\ r.data_hash = <<"sha256", last.data>>

\* a lookup within the TTL that differs from a stored row in exactly one tracked
\* dependency (the campaign context; the snapshot; the raw content) and is not Fresh
C1_Witness ==
    /\ last.op = "get_cached_recommendation"
    /\ ~IsFresh(last.res)
    /\ \E r \in recStore :
          /\ DiffCount(RecRowDeps(r), RecDeps(last.enriched_data, last.dep)) = 1
          /\ r.campaign_context_hash # CampaignHash(last.dep[3])
          /\ now < RecRowExpiry(r)
C1_Witness_Sum ==
    /\ last.op = "get_cached_summary"
    /\ ~IsFresh(last.res)
    /\ \E r \in sumStore :
          /\ DiffCount(SumRowDeps(r), SumDeps(last.enriched_data, last.prompt)) = 1
          /\ now < SumRowExpiry(r)
C1_Witness_Raw ==
    /\ last.op = "has_changed"
    /\ last.res = TRUE
    /\ \E r \in rawStore :
          /\ r.cache_key = <<last.source, last.entity_type, last.entity_id>>
          /\ r.data_hash # <<"sha256", last.data>>
          /\ now < r.created_at + r.ttl_minutes

\* the rows of the unit of work a lookup is about
RecUnitRows(deal_id) == { r \in recStore : r.cache_key[2] = deal_id }
SumUnitRows(enriched_data) ==
    { r \in sumStore : /\ r.cache_key[1] = enriched_data.primary_type
                       /\ r.cache_key[2] = enriched_data.primary_record.id }
StaleFrom(artifact, snapshot) ==
    << [artifact |-> artifact, is_fresh |-> FALSE, previous |-> << snapshot >>] >>

RecSameInputsRows(deal_id, dep) ==
    { r \in RecUnitRows(deal_id) :
        << r.prompt_hash, r.company_context_hash, r.campaign_context_hash >>
            = << _compute_hash(dep[1]), _compute_hash(dep[2]), CampaignHash(dep[3]) >> }
SumSameInputsRows(enriched_data, prompt) ==
    { r \in SumUnitRows(enriched_data) : r.prompt_hash = _compute_prompt_hash(prompt) }

C3_TtlExpiry ==
    /\ last.op = "get"
          => \A r \in rawStore :
                (/\ r.cache_key = <<last.source, last.entity_type, last.entity_id>>
                 /\ now > r.created_at + r.ttl_minutes)
                => IsMiss(last.res)
    /\ last.op = "cleanup_expired"
          => \A r \in rawStore : ~(now > r.created_at + r.ttl_minutes)

\* C4 as claimed: a lookup of the recommendation cache or the summary cache is
\* Fresh only strictly before the expiry of the record it returns.
C4_FreshOnlyBeforeExpiry ==
    /\ (last.op = "get_cached_recommendation" /\ IsFresh(last.res))
          => \A r \in RecSameInputsRows(last.deal_id, last.dep) : now < RecRowExpiry(r)
    /\ (last.op = "get_cached_summary" /\ IsFresh(last.res))
          => \A r \in SumSameInputsRows(last.enriched_data, last.prompt) :
                now < SumRowExpiry(r)

\* C5 as claimed: a lookup under the dependencies of a stored record, within its
\* TTL, is Fresh with the stored artifact; and an orchestrator whose lookup is
\* Fresh returns that artifact flagged is_cached, having made no generation call.
C5_CacheIdempotent ==
    /\ last.op = "get_cached_recommendation"
          => \A r \in RecUnitRows(last.deal_id) :
                (RecRowDeps(r) = RecDeps(last.enriched_data, last.dep)
                    /\ now < RecRowExpiry(r))
                => (IsFresh(last.res) /\ last.res[1].artifact = r.recommendation_json)
    /\ last.op = "get_cached_summary"
          => \A r \in SumUnitRows(last.enriched_data) :
                (SumRowDeps(r) = SumDeps(last.enriched_data, last.prompt)
                    /\ now < SumRowExpiry(r))
                => (IsFresh(last.res) /\ last.res[1].artifact = r.summary_json)
C5_SummarizeIdempotent ==
    (last.op = "summarize" /\ IsFresh(last.lookup))
        => /\ last.res = [last.lookup[1].artifact EXCEPT !.is_cached = TRUE]
           /\ last.gen_calls = 0
C5_RecommendIdempotent ==
    (last.op = "recommend" /\ IsFresh(last.lookup))
        => /\ last.res = [last.lookup[1].artifact EXCEPT !.is_cached = TRUE]
           /\ last.gen_calls = 0
C5_Idempotence ==
    C5_CacheIdempotent /\ C5_SummarizeIdempotent /\ C5_RecommendIdempotent

\* ================================================================== action models
\* src/src/brevo_sales/recommendations/action_models.py
\*
\* A text is a sequence of chunks.  A chunk is a maximal run of letters and
\* underscores (a word), a run of digits, one punctuation character, or a
\* stretch of ordinary prose that holds none of the characters the placeholder
\* patterns look for and starts and ends with a non-word character.  s is the
\* chunk's characters (its class for digits and prose), n its length.
Tok(s, n) == [s |-> s, n |-> n]

\* len(text)
RECURSIVE TextLen(_)
TextLen(text) == IF text = << >> THEN 0 ELSE Head(text).n + TextLen(Tail(text))

\* str.upper(), which is what re.IGNORECASE amounts to for these patterns
Upper(s) ==
    CASE s = "name" -> "NAME"
      [] s = "tbd" -> "TBD"
      [] s = "date" -> "DATE"
      [] s = "Ana" -> "ANA"
      [] s = "hello" -> "HELLO"
      [] s = "hi" -> "HI"
      [] s = "follow" -> "FOLLOW"
      [] s = "up" -> "UP"
      [] s = "checking" -> "CHECKING"
      [] s = "in" -> "IN"
      [] OTHER -> s

\* has_placeholders(text): the ten patterns, searched anywhere in the text
has_placeholders(text) ==
    LET n == Len(text)
        m == [i \in 1..n |-> Upper(text[i].s)]
        \* chunks that are runs of [A-Z_] once upper-cased
        UpperWords ==
            {"NAME", "TBD", "DATE", "ANA", "HELLO", "HI", "FOLLOW", "UP", "CHECKING", "IN",
             "TODO", "XXX", "INSERT", "FILL"}
        Named(open, close) ==
            \E i \in 1..n : /\ i + 2 <= n
                            /\ m[i] = open
                            /\ m[i + 1] \in UpperWords \cup {"..."}
                            /\ m[i + 2] = close
        \* no closing brace in positions a..b, and at least one character there
        NoneClosing(a, b, close) == a <= b /\ \A k \in a..b : m[k] # close
        DoubleBrace ==
            \E i \in 1..n, j \in 1..n :
                /\ i + 1 <= n /\ j + 1 <= n
                /\ m[i] = "{" /\ m[i + 1] = "{"
                /\ NoneClosing(i + 2, j - 1, "}")
                /\ m[j] = "}" /\ m[j + 1] = "}"
        DollarBrace ==
            \E i \in 1..n, j \in 1..n :
                /\ i + 1 <= n
                /\ m[i] = "$" /\ m[i + 1] = "{"
                /\ NoneClosing(i + 2, j - 1, "}")
                /\ m[j] = "}"
        \* \bX\b: the word stands alone, no digit touches it
        Marker(x) ==
            \E i \in 1..n : /\ m[i] = x
                            /\ (i > 1 => m[i - 1] # "digits")
                            /\ (i < n => m[i + 1] # "digits")
        Instruction(prefix) ==
            \E i \in 1..n, j \in 1..n :
                /\ i + 1 <= n
                /\ m[i] = "[" /\ m[i + 1] = prefix
                /\ j > i + 1 /\ m[j] = "]"
                /\ \A k \in (i + 2)..(j - 1) : m[k] # "]"
    IN  \/ Named("[", "]")
        \/ Named("{", "}")
        \/ Named("<", ">")
        \/ DoubleBrace
        \/ DollarBrace
        \/ Marker("TODO")
        \/ Marker("TBD")
        \/ Marker("XXX")
        \/ Instruction("INSERT")
        \/ Instruction("FILL")

\* "if v and has_placeholders(v)" on an Optional[str] (None and "" are both falsy)
NoText == << >>
optional_has_placeholders(v) == v # NoText /\ has_placeholders(v)

\* EmailStr: an address with a local part and a domain
EmailStrValid(a) == a.local # "" /\ a.domain # ""

\* validate_phone_format: formatting characters removed, then ^\+?\d{8,15}$
validate_phone_format(v) == ~v.other /\ v.digits >= 8 /\ v.digits <= 15

\* HttpUrl
HttpUrlValid(u) == u.scheme \in {"http", "https"}

\* validate_linkedin_url: 'linkedin.com/in/' in str(v)
validate_linkedin_url(u) == u.profile

ActionStatus ==
    {"pending", "prerequisites_incomplete", "ready", "executing", "completed", "failed"}
PrerequisiteStatus == {"todo", "in_progress", "completed", "blocked"}

\* Prerequisite(**p) validates
PrerequisiteValid(p) ==
    /\ TextLen(p.task) >= 10
    /\ p.status \in PrerequisiteStatus
    /\ p.blocking \in BOOLEAN
    /\ ~has_placeholders(p.task)

\* the subject, lower-cased and stripped, is one of the generic subjects
SubjectIsGeneric(subject) ==
    LET generic_subjects ==
            { <<"HELLO">>, <<"HI">>, <<"FOLLOW", " ", "UP">>, <<"CHECKING", " ", "IN">> }
    IN  [i \in 1..Len(subject) |-> Upper(subject[i].s)] \in generic_subjects

\* EmailAction(**a) validates
EmailActionValid(a) ==
    /\ EmailStrValid(a.from_email)
    /\ TextLen(a.from_name) >= 1
    /\ EmailStrValid(a.to_email)
    /\ TextLen(a.to_name) >= 1
    /\ TextLen(a.subject) >= 5
    /\ TextLen(a.content) >= 50
    /\ \A f \in {a.subject, a.content, a.from_name, a.to_name} : ~has_placeholders(f)
    /\ ~SubjectIsGeneric(a.subject)

\* PhoneAction(**a) validates
PhoneActionValid(a) ==
    /\ TextLen(a.to_name) >= 1
    /\ TextLen(a.objective) >= 10
    /\ Len(a.talking_points) >= 2
    /\ a.expected_duration_minutes >= 5
    /\ a.expected_duration_minutes <= 120
    /\ validate_phone_format(a.to_phone)
    /\ ~has_placeholders(a.objective)
    /\ ~optional_has_placeholders(a.notes)
    /\ \A i \in 1..Len(a.talking_points) :
          /\ ~has_placeholders(a.talking_points[i])
          /\ TextLen(a.talking_points[i]) >= 10

\* LinkedInAction(**a) validates
LinkedInActionValid(a) ==
    /\ HttpUrlValid(a.recipient_linkedin_url)
    /\ TextLen(a.recipient_name) >= 1
    /\ a.action_type \in {"connection_request", "message", "inmail"}
    /\ TextLen(a.message) >= 20
    /\ TextLen(a.message) <= 1900
    /\ TextLen(a.connection_note) <= 300
    /\ validate_linkedin_url(a.recipient_linkedin_url)
    /\ \A f \in {a.subject, a.message, a.connection_note, a.recipient_name} :
          ~optional_has_placeholders(f)
    /\ ~(a.action_type = "inmail" /\ a.subject = NoText)
    /\ ~(a.action_type = "connection_request" /\ a.connection_note = NoText)

\* WhatsAppAction(**a) validates
WhatsAppActionValid(a) ==
    /\ TextLen(a.to_name) >= 1
    /\ TextLen(a.message) >= 10
    /\ validate_phone_format(a.to_phone)
    /\ \A f \in {a.message, a.to_name} : ~has_placeholders(f)

\* ActionType: the union discriminated by 'type'
ActionTypeValid(a) ==
    CASE a.type = "email" -> EmailActionValid(a)
      [] a.type = "phone" -> PhoneActionValid(a)
      [] a.type = "linkedin" -> LinkedInActionValid(a)
      [] a.type = "whatsapp" -> WhatsAppActionValid(a)
      [] OTHER -> FALSE

\* any(p.blocking and p.status != COMPLETED for p in prerequisites)
blocking_incomplete(prerequisites) ==
    \E i \in 1..Len(prerequisites) :
        prerequisites[i].blocking /\ prerequisites[i].status # "completed"

\* (mutant) the status the caller supplied, kept as it is
StatusKept(prerequisites, status) == status

\* ExecutableAction.compute_status: the status the constructed action carries
compute_status(prerequisites, status) ==
    IF blocking_incomplete(prerequisites) /\ status = "pending"
    THEN "prerequisites_incomplete"
    ELSE IF ~blocking_incomplete(prerequisites) /\ status = "prerequisites_incomplete"
         THEN "ready"
         ELSE status

\* the field checks of ExecutableAction(**x)
ExecutableActionValid(x) ==
    /\ ActionTypeValid(x.action)
    /\ x.priority \in {"P0", "P1", "P2"}
    /\ \A i \in 1..Len(x.prerequisites) : PrerequisiteValid(x.prerequisites[i])
    /\ TextLen(x.rationale) >= 50
    /\ TextLen(x.context) >= 30
    /\ Len(x.success_metrics) >= 1
    /\ x.status \in ActionStatus
    /\ \A f \in {x.rationale, x.context} : ~has_placeholders(f)
    /\ \A i \in 1..Len(x.success_metrics) :
          /\ ~has_placeholders(x.success_metrics[i])
          /\ TextLen(x.success_metrics[i]) >= 10

\* ExecutableAction(**x): << >> when pydantic raises ValidationError, else the
\* one constructed action, its status settled by compute_status
NewExecutableAction(x) ==
    IF ExecutableActionValid(x)
    THEN << [x EXCEPT !.status = compute_status(x.prerequisites, x.status)] >>
    ELSE << >>

\* ------------------------------------------------------------------ constructor inputs
MaxPrerequisites == 2     \* prerequisite lists of 0..MaxPrerequisites entries

Sentence(n) == << Tok("prose", n) >>

\* placeholder texts, and texts that only look like them
Sample ==
    [name |-> << Tok("Ana", 3) >>,
     bracketed |-> << Tok("[", 1), Tok("NAME", 4), Tok("]", 1) >>,
     tbd |-> << Tok("tbd", 3) >>,
     double_braced |-> << Tok("{", 1), Tok("{", 1), Tok("name", 4), Tok("}", 1), Tok("}", 1) >>,
     insert |-> << Tok("[", 1), Tok("INSERT", 6), Tok(" ", 1), Tok("date", 4), Tok("]", 1) >>,
     ellipsis |-> << Tok("<", 1), Tok("...", 3), Tok(">", 1) >>,
     footnote |-> << Tok("[", 1), Tok("digits", 1), Tok("]", 1) >>,
     todo1 |-> << Tok("TODO", 4), Tok("digits", 1) >>,
     hello |-> << Tok("hello", 5) >>,
     follow_up |-> << Tok("follow", 6), Tok(" ", 1), Tok("up", 2) >>]
PlaceholderMarks == { Sample.bracketed, Sample.tbd }
Marked(text, marks) == { text \o mk : mk \in marks }

EmailBase ==
    [type |-> "email", from_email |-> [local |-> "ana", domain |-> "acme.com"],
     from_name |-> Sample.name, to_email |-> [local |-> "bob", domain |-> "acme.com"],
     to_name |-> Sample.name, subject |-> Sentence(20), content |-> Sentence(60)]
EmailSamples ==
    {EmailBase}
    \cup { [EmailBase EXCEPT !.from_email = [local |-> "", domain |-> ""]] }
    \cup { [EmailBase EXCEPT !.from_name = t] : t \in PlaceholderMarks }
    \cup { [EmailBase EXCEPT !.to_name = t] : t \in PlaceholderMarks }
    \cup { [EmailBase EXCEPT !.subject = t] :
              t \in Marked(Sentence(20), PlaceholderMarks)
                    \cup { Sentence(4), Sample.hello, Sample.follow_up } }
    \cup { [EmailBase EXCEPT !.content = t] :
              t \in Marked(Sentence(60),
                           PlaceholderMarks
                           \cup { Sample.double_braced, Sample.insert, Sample.ellipsis,
                                  Sample.footnote, Sample.todo1 })
                    \cup { Sentence(49) } }

PhoneSamples ==
    { [digits |-> 11, other |-> FALSE], [digits |-> 7, other |-> FALSE],
      [digits |-> 11, other |-> TRUE] }
PhoneActionSamples ==
    LET base == [type |-> "phone", to_phone |-> [digits |-> 11, other |-> FALSE],
                 to_name |-> Sample.name, objective |-> Sentence(20),
                 talking_points |-> << Sentence(20), Sentence(20) >>,
                 expected_duration_minutes |-> 15, notes |-> NoText]
    IN  { [base EXCEPT !.to_phone = t] : t \in PhoneSamples }
        \cup { [base EXCEPT !.to_name = t] : t \in PlaceholderMarks }
        \cup { [base EXCEPT !.objective = t] :
                  t \in Marked(Sentence(20), PlaceholderMarks) \cup { Sentence(9) } }
        \cup { [base EXCEPT !.talking_points = t] :
                  t \in { << Sentence(20) >>, << Sentence(20), Sentence(9) >>,
                          << Sentence(20), Sentence(20) \o Sample.bracketed >> } }
        \cup { [base EXCEPT !.expected_duration_minutes = t] : t \in {4, 121} }
        \cup { [base EXCEPT !.notes = t] :
                  t \in Marked(Sentence(20), PlaceholderMarks) \cup { Sentence(20) } }

LinkedInSamples ==
    LET base == [type |-> "linkedin",
                 recipient_linkedin_url |-> [scheme |-> "https", profile |-> TRUE],
                 recipient_name |-> Sample.name, action_type |-> "message",
                 subject |-> NoText, message |-> Sentence(40), connection_note |-> NoText]
    IN  { [base EXCEPT !.recipient_linkedin_url = t] :
             t \in { [scheme |-> "https", profile |-> TRUE],
                     [scheme |-> "https", profile |-> FALSE],
                     [scheme |-> "ftp", profile |-> TRUE] } }
        \cup { [base EXCEPT !.recipient_name = t] : t \in PlaceholderMarks }
        \cup { [base EXCEPT !.action_type = "inmail", !.subject = t] :
                  t \in Marked(Sentence(20), PlaceholderMarks) \cup { NoText, Sentence(20) } }
        \cup { [base EXCEPT !.action_type = "connection_request", !.connection_note = t] :
                  t \in Marked(Sentence(20), PlaceholderMarks)
                        \cup { NoText, Sentence(20), Sentence(301) } }
        \cup { [base EXCEPT !.message = t] :
                  t \in Marked(Sentence(40), PlaceholderMarks)
                        \cup { Sentence(19), Sentence(1901) } }

WhatsAppSamples ==
    LET base == [type |-> "whatsapp", to_phone |-> [digits |-> 11, other |-> FALSE],
                 to_name |-> Sample.name, message |-> Sentence(20)]
    IN  { [base EXCEPT !.to_phone = t] : t \in PhoneSamples }
        \cup { [base EXCEPT !.to_name = t] : t \in PlaceholderMarks }
        \cup { [base EXCEPT !.message = t] :
                  t \in Marked(Sentence(20), PlaceholderMarks) \cup { Sentence(9) } }

ActionSamples == EmailSamples \cup PhoneActionSamples \cup LinkedInSamples \cup WhatsAppSamples

PrerequisiteLists ==
    LET Pre(task, status, blocking) ==
            [id |-> "prereq-1", task |-> task, assignee |-> NoText, status |-> status,
             blocking |-> blocking]
        samples ==
            { Pre(Sentence(20), "todo", TRUE), Pre(Sentence(20), "completed", TRUE),
              Pre(Sentence(20), "in_progress", FALSE),
              Pre(Sentence(20) \o Sample.tbd, "completed", TRUE) }
    IN  UNION { [1..k -> samples] : k \in 0..MaxPrerequisites }

WrapperBase(action, prerequisites, status) ==
    [action |-> action, priority |-> "P0", recommended_timing |-> Sentence(15),
     prerequisites |-> prerequisites, rationale |-> Sentence(60), context |-> Sentence(40),
     success_metrics |-> << Sentence(20) >>, status |-> status]
WrapperSamples(base) ==
    {base}
    \cup { [base EXCEPT !.priority = "P3"] }
    \cup { [base EXCEPT !.recommended_timing = t] : t \in PlaceholderMarks }
    \cup { [base EXCEPT !.rationale = t] :
              t \in Marked(Sentence(60), {Sample.bracketed}) \cup { Sentence(49) } }
    \cup { [base EXCEPT !.context = t] :
              t \in Marked(Sentence(40), {Sample.tbd}) \cup { Sentence(29) } }
    \cup { [base EXCEPT !.success_metrics = t] :
              t \in { << >>, << Sentence(9) >>, << Sentence(20), Sentence(20) \o Sample.tbd >> } }

\* ------------------------------------------------------------------ the constructor's specification
InitAction ==
    /\ inst = "action"
    /\ now = 0
    /\ rawStore = {}
    /\ sumStore = {}
    /\ recStore = {}
    /\ ttlConf = 0
    /\ last = Idle
    /\ \E a \in ActionSamples, ps \in PrerequisiteLists, st \in ActionStatus :
          arg \in WrapperSamples(WrapperBase(a, ps, st))
    /\ parsing = NotParsing
    /\ debugFile = NoFile
    /\ calls = [p \in Procs |-> NoCall]
    /\ commits = << >>

\* ExecutableAction(**arg)
Construct ==
    /\ inst = "action"
    /\ last = Idle
    /\ last' = [op |-> "ExecutableAction", res |-> NewExecutableAction(arg)]
    /\ UNCHANGED <<inst, now, rawStore, sumStore, recStore, ttlConf, callVars>>

NextAction == Construct

SpecAction == InitAction /\ [][NextAction]_vars

\* the action the last constructor call returned, if it returned one
Constructed == last.op = "ExecutableAction" /\ last.res # << >>

\* C6: whatever status the caller supplies, a constructed action that has a
\* blocking prerequisite which is not completed carries the status
\* prerequisites_incomplete.
C6_StatusNeverContradictsPrerequisites ==
    (Constructed /\ blocking_incomplete(last.res[1].prerequisites))
        => last.res[1].status = "prerequisites_incomplete"

\* the text fields of a channel payload and of the action around it
PayloadTexts(a) ==
    CASE a.type = "email" -> {a.from_name, a.to_name, a.subject, a.content}
      [] a.type = "phone" ->
            {a.to_name, a.objective, a.notes}
            \cup { a.talking_points[i] : i \in 1..Len(a.talking_points) }
      [] a.type = "linkedin" -> {a.recipient_name, a.subject, a.message, a.connection_note}
      [] a.type = "whatsapp" -> {a.to_name, a.message}
ActionTexts(x) ==
    PayloadTexts(x.action)
    \cup {x.recommended_timing, x.rationale, x.context}
    \cup { x.success_metrics[i] : i \in 1..Len(x.success_metrics) }
    \cup { x.prerequisites[i].task : i \in 1..Len(x.prerequisites) }

\* C7: no constructed action has a text field (names, subject, body or message,
\* objective, notes, talking points, connection note, timing, rationale,
\* context, success metrics, prerequisite task) in which has_placeholders
\* finds a placeholder, whichever the channel.
C7_NoPlaceholderInAnyField ==
    Constructed => \A t \in ActionTexts(last.res[1]) : ~has_placeholders(t)

\* ================================================================== the response parser
\* src/src/brevo_sales/recommendations/parser.py
\*
\* A response is a sequence of lines or groups of lines (segments) joined by
\* "\n": a line of kind prose (no braces, no backticks), blank (white space
\* only), fence (```) or fence_json (```json) with its n characters, or json,
\* the text of one JSON value v.  A JSON value
\* is an object (its members in data, its brace nesting in depth), an array
\* (its elements in items) or malformed (balanced braces around something
\* that is not JSON); n is the length of its text.
Obj(data, depth, n) == [form |-> "object", data |-> data, depth |-> depth, n |-> n]
Arr(items, n) == [form |-> "array", items |-> items, n |-> n]
Malformed(n) == [form |-> "malformed", n |-> n]

Line(k, n) == [k |-> k, n |-> n]
JsonText(v) == [k |-> "json", v |-> v]

IsFence(seg) == seg.k \in {"fence", "fence_json"}

\* len(response)
RECURSIVE SegsLen(_)
SegsLen(segs) ==
    IF segs = << >>
    THEN 0
    ELSE (IF Head(segs).k = "json" THEN Head(segs).v.n ELSE Head(segs).n)
             + SegsLen(Tail(segs))
CharLen(response) == SegsLen(response) + (IF Len(response) > 1 THEN Len(response) - 1 ELSE 0)

\* (mutant) the whole text, whatever the stop
WholeText(response, stop) == [text |-> response, upto |-> CharLen(response)]

\* response[:stop]: the first characters of the text, all of it when it is shorter
PythonSlice(response, stop) ==
    [text |-> response,
     upto |-> IF CharLen(response) < stop THEN CharLen(response) ELSE stop]

\* str.strip()
RECURSIVE LStrip(_)
LStrip(segs) ==
    IF segs # << >> /\ Head(segs).k = "blank" THEN LStrip(Tail(segs)) ELSE segs
RECURSIVE RStrip(_)
RStrip(segs) ==
    IF segs # << >> /\ segs[Len(segs)].k = "blank"
    THEN RStrip(SubSeq(segs, 1, Len(segs) - 1))
    ELSE segs
Strip(segs) == RStrip(LStrip(segs))

\* json.loads(text): << >> for JSONDecodeError, else the one value
JsonLoads(segs) ==
    IF Len(segs) = 1 /\ segs[1].k = "json" /\ segs[1].v.form # "malformed"
    THEN << segs[1].v >>
    ELSE << >>

\* ActionRecommendations(**data) validates
ActionRecommendationsValid(data) ==
    /\ {"deal_id", "deal_name", "executive_summary", "key_insights", "overall_strategy",
        "data_version"} \subseteq DOMAIN data
    /\ TextLen(data.executive_summary) >= 100
    /\ Len(data.key_insights) >= 1
    /\ TextLen(data.overall_strategy) >= 100
    /\ \A key \in {"p0_actions", "p1_actions", "p2_actions"} \cap DOMAIN data :
          \A i \in 1..Len(data[key]) : ExecutableActionValid(data[key][i])

\* the ActionRecommendations that ActionRecommendations(**data) constructs
NewActionRecommendations(data) ==
    LET BuiltActions(key) ==
            IF key \in DOMAIN data
            THEN [i \in 1..Len(data[key]) |-> NewExecutableAction(data[key][i])[1]]
            ELSE << >>
    IN  [deal_id |-> data.deal_id, deal_name |-> data.deal_name,
         executive_summary |-> data.executive_summary, key_insights |-> data.key_insights,
         p0_actions |-> BuiltActions("p0_actions"),
         p1_actions |-> BuiltActions("p1_actions"),
         p2_actions |-> BuiltActions("p2_actions"),
         overall_strategy |-> data.overall_strategy, data_version |-> data.data_version,
         is_cached |-> FALSE]

\* ActionRecommendations(**data) on a deserialized value: the model, or the
\* exception it raises
Deserialized(v) ==
    IF v.form # "object"
    THEN [ok |-> FALSE, exc |-> "TypeError"]
    ELSE IF ActionRecommendationsValid(v.data)
         THEN [ok |-> TRUE, data |-> NewActionRecommendations(v.data)]
         ELSE [ok |-> FALSE, exc |-> "ValidationError"]

\* tier_used of a ParseResult that names no tier (None)
NoTier == 0

\* (mutant) a success that does not record its tier
SuccessUnlabelled(tier, recommendations, response) ==
    [success |-> TRUE, data |-> << recommendations >>, tier_used |-> NoTier, error |-> "",
     raw_response |-> PythonSlice(response, CharLen(response))]

\* (mutant) a successful result that also carries an error text
SuccessWithError(tier, recommendations, response) ==
    [success |-> TRUE, data |-> << recommendations >>, tier_used |-> tier,
     error |-> "parsed with warnings",
     raw_response |-> PythonSlice(response, CharLen(response))]

\* ParseResult(success=True, data=recommendations, tier_used=tier, raw_response=response)
Success(tier, recommendations, response) ==
    [success |-> TRUE, data |-> << recommendations >>, tier_used |-> tier, error |-> "",
     raw_response |-> PythonSlice(response, CharLen(response))]

\* what a tier does: return a ParseResult or raise
Returned(result) == [ok |-> TRUE, result |-> result]
Raised(exc, msg) == [ok |-> FALSE, exc |-> exc, msg |-> msg]

\* _parse_tier1_direct_json
_parse_tier1_direct_json(response) ==
    LET loaded == JsonLoads(Strip(response))
    IN  IF loaded = << >>
        THEN Raised("ValueError", "Not valid JSON")
        ELSE LET d == Deserialized(loaded[1])
             IN  IF d.ok
                 THEN Returned(Success(1, d.data, response))
                 ELSE IF d.exc = "ValidationError"
                      THEN Raised("ValueError", "JSON doesn't match schema")
                      ELSE Raised(d.exc, "argument after ** must be a mapping")

\* re.findall of  opener \s*\n (.*?) \n```  with re.DOTALL, from segment pos on:
\* the contents of the blocks, in order.  The opener is a segment of kind
\* `kind`; \s* runs over the blank lines after it; the block closes at the
\* first later line that starts with ``` and the scan goes on after it.  When
\* nothing closes the block but a fence follows the blank lines directly, \s*
\* gives the last blank line back as the content.
RECURSIVE FindBlocks(_, _, _)
FindBlocks(response, pos, kind) ==
    LET n == Len(response)
        openers == { i \in pos..n : response[i].k = kind }
    IN  IF openers = {}
        THEN << >>
        ELSE LET i == CHOOSE o \in openers : \A o2 \in openers : o <= o2
                 b == CHOOSE c \in 0..(n - i) :
                         /\ \A k \in (i + 1)..(i + c) : response[k].k = "blank"
                         /\ (i + c + 1 <= n => response[i + c + 1].k # "blank")
                 start == i + b + 1
                 closers == { j \in (start + 1)..n : IsFence(response[j]) }
             IN  IF closers # {}
                 THEN LET j == CHOOSE c \in closers : \A c2 \in closers : c <= c2
                      IN  << SubSeq(response, start, j - 1) >>
                              \o FindBlocks(response, j + 1, kind)
                 ELSE IF b >= 1 /\ start <= n /\ IsFence(response[start])
                      THEN << SubSeq(response, start - 1, start - 1) >>
                               \o FindBlocks(response, start + 1, kind)
                      ELSE FindBlocks(response, i + 1, kind)

\* the loop over all_matches of _parse_tier2_markdown
RECURSIVE TryBlocks(_, _)
TryBlocks(all_matches, response) ==
    IF all_matches = << >>
    THEN Raised("ValueError", "All code blocks failed to parse")
    ELSE LET loaded == JsonLoads(Strip(Head(all_matches)))
         IN  IF loaded = << >>
             THEN TryBlocks(Tail(all_matches), response)
             ELSE LET d == Deserialized(loaded[1])
                  IN  IF d.ok
                      THEN Returned(Success(2, d.data, response))
                      ELSE IF d.exc = "ValidationError"
                           THEN TryBlocks(Tail(all_matches), response)
                           ELSE Raised(d.exc, "argument after ** must be a mapping")

\* _parse_tier2_markdown
_parse_tier2_markdown(response) ==
    LET matches1 == FindBlocks(response, 1, "fence_json")
        matches2 == FindBlocks(response, 1, "fence")
        all_matches == matches1 \o matches2
    IN  IF all_matches = << >>
        THEN Raised("ValueError", "No markdown code blocks found")
        ELSE TryBlocks(all_matches, response)

\* the objects one level below the top of an object nested three deep: the
\* entries of its action lists, each with its payload and prerequisites inside
NestedObjects(v) ==
    LET list(key) == IF key \in DOMAIN v.data THEN v.data[key] ELSE << >>
        all == list("p0_actions") \o list("p1_actions") \o list("p2_actions")
    IN  [i \in 1..Len(all) |-> Obj(all[i], 2, 300)]

\* re.findall(r'\{[^{}]*(?:\{[^{}]*\}[^{}]*)*\}') inside one JSON text: a brace
\* pair with at most one level of braces inside it
RECURSIVE BraceMatches(_)
RECURSIVE BraceMatchesOfItems(_)
BraceMatches(v) ==
    CASE v.form = "malformed" -> << v >>
      [] v.form = "object" -> IF v.depth <= 2 THEN << v >> ELSE NestedObjects(v)
      [] v.form = "array" -> BraceMatchesOfItems(v.items)
BraceMatchesOfItems(items) ==
    IF items = << >>
    THEN << >>
    ELSE BraceMatches(Head(items)) \o BraceMatchesOfItems(Tail(items))

\* the matches of the pattern in the whole response
RECURSIVE ResponseMatches(_)
ResponseMatches(response) ==
    IF response = << >>
    THEN << >>
    ELSE (IF Head(response).k = "json" THEN BraceMatches(Head(response).v) ELSE << >>)
             \o ResponseMatches(Tail(response))

\* sorted(matches, key=len, reverse=True): stable
RECURSIVE SortedByLen(_)
SortedByLen(matches) ==
    IF matches = << >>
    THEN << >>
    ELSE LET longest == CHOOSE i \in 1..Len(matches) :
                            /\ \A j \in 1..Len(matches) : matches[j].n <= matches[i].n
                            /\ \A j \in 1..(i - 1) : matches[j].n < matches[i].n
         IN  << matches[longest] >>
                 \o SortedByLen(SubSeq(matches, 1, longest - 1)
                                    \o SubSeq(matches, longest + 1, Len(matches)))

\* the loop over matches[:5] of _parse_tier3_regex
RECURSIVE TryMatches(_, _)
TryMatches(matches, response) ==
    IF matches = << >>
    THEN Raised("ValueError", "Regex extraction failed")
    ELSE LET v == Head(matches)
         IN  IF v.form = "malformed"
             THEN TryMatches(Tail(matches), response)
             ELSE IF {"deal_id", "p0_actions"} \cap DOMAIN v.data # {}
                  THEN LET d == Deserialized(v)
                       IN  IF d.ok
                           THEN Returned(Success(3, d.data, response))
                           ELSE IF d.exc = "ValidationError"
                                THEN TryMatches(Tail(matches), response)
                                ELSE Raised(d.exc, "argument after ** must be a mapping")
                  ELSE TryMatches(Tail(matches), response)

\* _parse_tier3_regex
_parse_tier3_regex(response) ==
    LET matches == SortedByLen(ResponseMatches(response))
    IN  IF matches = << >>
        THEN Raised("ValueError", "No JSON-like structures found")
        ELSE TryMatches(SubSeq(matches, 1, IF Len(matches) < 5 THEN Len(matches) ELSE 5),
                        response)

\* (mutant) a clause that catches ValueError only
ExceptValueError(exc) == exc = "ValueError"

\* "except Exception": the exception classes the clause catches
ExceptException(exc) == exc \in {"ValueError", "TypeError", "ValidationError"}

AllTiersFailedMessage ==
    "All parsing tiers failed. Response may not contain valid JSON or the format is incorrect."

\* ------------------------------------------------------------------ responses
MaxParts == 2     \* a response is made of 0..MaxParts parts

\* the JSON texts a response is made of: a valid flat recommendation, a valid
\* one with an action (nested three deep), one with too short a summary, an
\* object that is no recommendation, an array around the valid one, a
\* malformed text, and an array of five long objects before the valid one
JsonValues ==
    LET RecommendationData(summary, actions) ==
            [deal_id |-> "deal-1", deal_name |-> "Acme", executive_summary |-> summary,
             key_insights |-> << Sentence(20) >>, p0_actions |-> actions,
             overall_strategy |-> Sentence(120), data_version |-> "v1"]
        flat == Obj(RecommendationData(Sentence(120), << >>), 1, 450)
        long_note == Obj([note |-> "long"], 1, 500)
    IN  { flat,
          Obj(RecommendationData(Sentence(120),
                                 << WrapperBase(EmailBase, << >>, "pending") >>), 3, 900),
          Obj(RecommendationData(Sentence(20), << >>), 1, 350),
          Obj([note |-> "n"], 1, 20),
          Arr(<< flat >>, 452),
          Malformed(40),
          Arr(<< long_note, long_note, long_note, long_note, long_note, flat >>, 3000) }

Parts ==
    { << Line("prose", 10) >>, << Line("prose", 600) >>, << Line("blank", 2) >>,
      << Line("fence", 3) >> }
    \cup { << JsonText(v) >> : v \in JsonValues }
    \cup { << f, JsonText(v), Line("fence", 3) >> :
              f \in { Line("fence", 3), Line("fence_json", 7) }, v \in JsonValues }

RECURSIVE Joined(_)
Joined(parts) == IF parts = << >> THEN << >> ELSE Head(parts) \o Joined(Tail(parts))

\* ------------------------------------------------------------------ the parser's specification
Parsing(pc, tried, debug) == [pc |-> pc, tried |-> tried, debug |-> debug]

InitParser ==
    /\ inst = "parser"
    /\ now = 0
    /\ rawStore = {}
    /\ sumStore = {}
    /\ recStore = {}
    /\ ttlConf = 0
    /\ last = Idle
    /\ \E k \in 0..MaxParts : \E parts \in [1..k -> Parts] : arg = Joined(parts)
    /\ parsing = Parsing("tier1", << >>, "none")
    /\ debugFile = NoFile
    /\ calls = [p \in Procs |-> NoCall]
    /\ commits = << >>

\* one tier of parse: its try block and its except clause
TierStep(pc, tier, outcome, next) ==
    /\ inst = "parser"
    /\ parsing.pc = pc
    /\ IF outcome.ok
       THEN /\ last' = [op |-> "parse", res |-> outcome.result]
            /\ parsing' = Parsing("done", Append(parsing.tried, tier), parsing.debug)
       ELSE /\ last' = last
            /\ parsing' = Parsing(IF ExceptException(outcome.exc) THEN next ELSE "raised",
                                  Append(parsing.tried, tier), parsing.debug)
    /\ UNCHANGED <<inst, now, rawStore, sumStore, recStore, ttlConf, arg, debugFile, calls, commits>>

Tier1 == TierStep("tier1", 1, _parse_tier1_direct_json(arg), "tier2")
Tier2 == TierStep("tier2", 2, _parse_tier2_markdown(arg), "tier3")
Tier3 == TierStep("tier3", 3, _parse_tier3_regex(arg), "failed")

\* all tiers failed: write the debug file (the write may raise, which is
\* swallowed) and return the failure
AllTiersFailed(written) ==
    /\ inst = "parser"
    /\ parsing.pc = "failed"
    /\ debugFile' = IF written THEN << arg >> ELSE debugFile
    /\ last' = [op |-> "parse",
                res |-> [success |-> FALSE, data |-> << >>, tier_used |-> NoTier,
                         error |-> AllTiersFailedMessage,
                         raw_response |-> PythonSlice(arg, 500)]]
    /\ parsing' = Parsing("done", parsing.tried, IF written THEN "written" ELSE "failed")
    /\ UNCHANGED <<inst, now, rawStore, sumStore, recStore, ttlConf, arg, calls, commits>>

NextParser ==
    \/ Tier1
    \/ Tier2
    \/ Tier3
    \/ \E written \in BOOLEAN : AllTiersFailed(written)

SpecParser == InitParser /\ [][NextParser]_vars

\* what tier k does on a response, whatever parse did before
TierOutcome(k, response) ==
    CASE k = 1 -> _parse_tier1_direct_json(response)
      [] k = 2 -> _parse_tier2_markdown(response)
      [] k = 3 -> _parse_tier3_regex(response)
ParseReturned == parsing.pc = "done" /\ last.op = "parse"
FirstTiers(k) == [i \in 1..k |-> i]

\* C8: parse tries tier 1, then tier 2, then tier 3, and stops at the first
\* that succeeds: the tiers tried so far are always 1..n in that order, and a
\* returned result with tier_used = k was returned right after tiers 1..k were
\* tried, every tier below k fails on the response, and the data is the data
\* tier k produces from it.
C8_TierOrder ==
    /\ parsing.tried = FirstTiers(Len(parsing.tried))
    /\ Len(parsing.tried) <= 3
    /\ (ParseReturned /\ last.res.success) =>
          LET k == last.res.tier_used
          IN  /\ k \in 1..3
              /\ parsing.tried = FirstTiers(k)
              /\ \A j \in 1..(k - 1) : ~TierOutcome(j, arg).ok
              /\ TierOutcome(k, arg).ok
              /\ last.res.data = TierOutcome(k, arg).result.data

\* a tier-3 success on a response that also holds a fenced block tier 2 rejected
C8_Witness ==
    /\ ParseReturned
    /\ last.res.success
    /\ last.res.tier_used = 3
    /\ parsing.tried = << 1, 2, 3 >>
    /\ FindBlocks(arg, 1, "fence_json") # << >>

\* tier 1 deserialized the response and the schema rejected it
Tier1SchemaFailure(response) ==
    LET o == _parse_tier1_direct_json(response)
    IN  ~o.ok /\ o.msg = "JSON doesn't match schema"

\* C9: a schema validation failure in tier 1 does not end the parse: tiers 2
\* and 3 are attempted after it; parse returns a failure only when tiers 1, 2
\* and 3 have all been tried; and no exception of a tier escapes parse.
C9_ValidationFailureNotTerminal ==
    /\ parsing.pc # "raised"
    /\ (Tier1SchemaFailure(arg) /\ Len(parsing.tried) >= 1 /\ parsing.pc \notin {"tier2", "tier3"})
          => parsing.tried = << 1, 2, 3 >>
    /\ (ParseReturned /\ ~last.res.success) => parsing.tried = << 1, 2, 3 >>

C9_Witness ==
    /\ ParseReturned
    /\ Tier1SchemaFailure(arg)
    /\ parsing.tried = << 1, 2, 3 >>
    /\ ~last.res.success

\* C10: when no tier succeeds, parse returns success=False with the error
\* "All parsing tiers failed..." and as raw_response the first 500 characters
\* of the response (all of it only when it is no longer than that), after the
\* attempt to write the whole response to the debug file; whether that write
\* succeeded makes no difference to the result.
C10_TotalFailure ==
    (parsing.pc = "done" /\ \A k \in 1..3 : ~TierOutcome(k, arg).ok) =>
        /\ last.op = "parse"
        /\ last.res.success = FALSE
        /\ last.res.data = << >>
        /\ last.res.error = AllTiersFailedMessage
        /\ last.res.raw_response.text = arg
        /\ last.res.raw_response.upto <= 500
        /\ last.res.raw_response.upto <= CharLen(arg)
        /\ (CharLen(arg) <= 500 => last.res.raw_response.upto = CharLen(arg))
        /\ (CharLen(arg) > 500 => last.res.raw_response.upto = 500)
        /\ parsing.debug \in {"written", "failed"}
        /\ (parsing.debug = "written" => debugFile = << arg >>)

\* a response longer than the snippet failed to parse and the debug file could
\* not be written
C10_Witness ==
    /\ ParseReturned
    /\ ~last.res.success
    /\ CharLen(arg) > 500
    /\ last.res.raw_response.upto = 500
    /\ parsing.debug = "failed"
    /\ debugFile = NoFile

\* ------------------------------------------------------------------ claims on the snapshot and summary digests
\* C15 (the summary hash does not influence freshness): a recommendation lookup
\* returns what the same lookup returns with any other summary hash passed, on
\* the same rows at the same time; so a summary that changed alone never turns
\* Fresh into Stale.
C15_SummaryHashIgnored ==
    last.op = "get_cached_recommendation"
       => \A v \in SummaryVersions :
             GetCachedRecommendationResult(recStore, now, last.deal_id, last.enriched_data,
                                           v, last.dep[1], last.dep[2], last.dep[3])
                = last.res

\* a lookup that passes a summary hash other than the stored one and is Fresh
C15_Witness ==
    /\ last.op = "get_cached_recommendation"
    /\ IsFresh(last.res)
    /\ \E r \in recStore :
          /\ RecRowDeps(r) = RecDeps(last.enriched_data, last.dep)
          /\ r.summary_hash # last.summary

\* C16 (volatile-field exclusion): a snapshot that differs from a stored one only
\* in volatile fields (IGNORED_FIELDS, at any depth) has the stored snapshot
\* digest, in the summary cache and in the recommendation cache.
C16_VolatileFieldExclusion ==
    /\ last.op = "get_cached_summary"
          => \A r \in sumStore :
                clean_dict(r.enriched_data_json) = clean_dict(last.enriched_data)
                   => r.enriched_data_hash = SummaryDataHash(last.enriched_data)
    /\ last.op = "get_cached_recommendation"
          => \A r \in recStore :
                clean_dict(r.enriched_data_json) = clean_dict(last.enriched_data)
                   => r.enriched_data_hash
                         = _compute_hash(enriched_data_stable(last.enriched_data))

\* ------------------------------------------------------------------ claims on deletion
\* the rows whose cache key is in the store before a step and not after it
Removed(store, store_after) ==
    { r \in store : \A q \in store_after : q.cache_key # r.cache_key }

\* C12 (deletion only by the sweep, only once expired): a step removes a cache
\* key from a store only if it is the sweep cleanup_expired and the row's
\* expires_at is not after now; no other operation of any cache removes a row.
C12_DeletedOnlyBySweepOnceExpired ==
    [][ /\ \A r \in Removed(rawStore, rawStore') :
              /\ last'.op = "cleanup_expired"
              /\ FromIsoFormat(r.expires_at) <= now
        /\ Removed(sumStore, sumStore') = {}
        /\ Removed(recStore, recStore') = {} ]_vars

\* ------------------------------------------------------------------ concurrent callers of one cache
\* Several callers use one database file.  Every SQL statement runs in its own
\* SQLite transaction: an INSERT OR REPLACE or DELETE with its commit, and a
\* SELECT with its fetchone, are atomic towards the other connections (a
\* connection that finds the file locked waits for the lock).
MaxCommits == 2     \* writes committed in one behaviour

InFlight == { p \in Procs : calls[p].pc \in {"set", "save"} }

\* CacheManager.set up to the INSERT: key, hash and expires_at are computed
SetPrepare(p, source, entity_type, entity_id, data, ttl_arg) ==
    /\ inst = "raw"
    /\ calls[p] = NoCall
    /\ Len(commits) + Cardinality(InFlight) < MaxCommits
    /\ calls' = [calls EXCEPT ![p] =
                    [pc |-> "set",
                     row |-> RawRow(now, source, entity_type, entity_id, data, ttl_arg)]]
    /\ last' = [op |-> "prepare"]
    /\ UNCHANGED <<inst, now, rawStore, sumStore, recStore, ttlConf, arg, parsing,
                   debugFile, commits>>

\* CacheManager.set: INSERT OR REPLACE and commit; created_at is the column's
\* default, the time of the INSERT
SetCommit(p) ==
    /\ inst = "raw"
    /\ calls[p].pc = "set"
    /\ LET row == [calls[p].row EXCEPT !.created_at = now]
       IN  /\ rawStore' = RawInsertOrReplace(rawStore, row)
           /\ commits' = Append(commits, row)
           /\ last' = [op |-> "set", key |-> row.cache_key,
                       res |-> row.data_hash]
    /\ calls' = [calls EXCEPT ![p] = NoCall]
    /\ UNCHANGED <<inst, now, sumStore, recStore, ttlConf, arg, parsing, debugFile>>

\* CacheManager.get: the SELECT and cursor.fetchone()
GetSelect(p, source, entity_type, entity_id) ==
    /\ inst = "raw"
    /\ calls[p] = NoCall
    /\ LET cache_key == _make_cache_key(source, entity_type, entity_id)
           fetched == RawFetchOne(rawStore, now, cache_key)
       IN  /\ calls' = [calls EXCEPT ![p] =
                           [pc |-> "get", key |-> cache_key, fetched |-> fetched]]
           /\ last' = [op |-> "select", key |-> cache_key,
                       fetched |-> fetched]
    /\ UNCHANGED <<inst, now, rawStore, sumStore, recStore, ttlConf, arg, parsing,
                   debugFile, commits>>

\* CacheManager.get: the record is built from the fetched row and returned
GetReturn(p) ==
    /\ inst = "raw"
    /\ calls[p].pc = "get"
    /\ last' = [op |-> "get", key |-> calls[p].key,
                fetched |-> calls[p].fetched, res |-> RawRecord(calls[p].fetched)]
    /\ calls' = [calls EXCEPT ![p] = NoCall]
    /\ UNCHANGED <<inst, now, rawStore, sumStore, recStore, ttlConf, arg, parsing,
                   debugFile, commits>>

\* RecommendationCache.save_recommendation up to the INSERT: the hashes and
\* generated_at / expires_at are computed
SavePrepare(p, deal_id, enriched_data, summary, dep, markdown) ==
    /\ inst = "recommendation"
    /\ calls[p] = NoCall
    /\ Len(commits) + Cardinality(InFlight) < MaxCommits
    /\ calls' = [calls EXCEPT ![p] =
                    [pc |-> "save", t |-> now, deal_id |-> deal_id,
                     enriched_data |-> enriched_data, summary |-> summary, dep |-> dep,
                     recommendation |-> _parse_recommendations(markdown, enriched_data)]]
    /\ last' = [op |-> "prepare"]
    /\ UNCHANGED <<inst, now, rawStore, sumStore, recStore, ttlConf, arg, parsing,
                   debugFile, commits>>

\* RecommendationCache.save_recommendation: INSERT OR REPLACE and commit
SaveCommit(p) ==
    /\ inst = "recommendation"
    /\ calls[p].pc = "save"
    /\ LET c == calls[p]
           stored(store) == SaveRecommendationStore(store, c.t, ttlConf, c.deal_id,
                                c.enriched_data, c.summary, c.dep[1], c.dep[2], c.dep[3],
                                c.recommendation)
           row == CHOOSE r \in stored({}) : TRUE
       IN  /\ recStore' = stored(recStore)
           /\ commits' = Append(commits, row)
           /\ last' = [op |-> "save_recommendation", key |-> row.cache_key,
                       res |-> c.recommendation]
    /\ calls' = [calls EXCEPT ![p] = NoCall]
    /\ UNCHANGED <<inst, now, rawStore, sumStore, ttlConf, arg, parsing, debugFile>>

\* The clock moves on while calls are under way: within the TTL, and past midnight.
Tick ==
    /\ \E t \in {0, 1, MinutesPerDay} : t > now /\ now' = t
    /\ last' = Idle
    /\ UNCHANGED <<inst, rawStore, sumStore, recStore, ttlConf, callVars>>

NextConcurrent ==
    \/ Tick
    \/ \E p \in Procs, k \in RawKeys, d \in RawData, ttl \in 1..MaxTtl :
          SetPrepare(p, k[1], k[2], k[3], d, ttl)
    \/ \E p \in Procs : SetCommit(p)
    \/ \E p \in Procs, k \in RawKeys : GetSelect(p, k[1], k[2], k[3])
    \/ \E p \in Procs : GetReturn(p)
    \/ CleanupExpired
    \/ \E p \in Procs, id \in DealIds, e \in Snapshots, dep \in RecommenderDependencies :
          SavePrepare(p, id, e, NoHash, dep, "markdown")
    \/ \E p \in Procs : SaveCommit(p)
    \/ \E id \in DealIds, e \in Snapshots, dep \in RecommenderDependencies :
          GetCachedRecommendation(id, e, NoHash, dep)

\* the raw-entity cache and the recommendation cache under concurrent callers
InitConcurrent == InitCache /\ inst \in {"raw", "recommendation"}
SpecConcurrent == InitConcurrent /\ [][NextConcurrent]_vars

\* ------------------------------------------------------------------ claims on concurrent callers
ConcurrentStore == IF inst = "raw" THEN rawStore ELSE recStore
KeyRows(key) == { r \in ConcurrentStore : r.cache_key = key }

\* the write that was the last to commit under a key, as <<row>>
LastCommit(key) ==
    LET at == { i \in 1..Len(commits) : commits[i].cache_key = key }
    IN  IF at = {} THEN << >>
        ELSE << commits[CHOOSE i \in at : \A j \in at : j <= i] >>

\* the clock reading a raw row's expires_at was computed from
RawPreparedAt(r) == FromIsoFormat(r.expires_at) - r.ttl_minutes

C11_Witness_Rec ==
    /\ last.op = "get_cached_recommendation"
    /\ Len(commits) = 2
    /\ commits[1].cache_key = commits[2].cache_key
    /\ commits[1].enriched_data_json # commits[2].enriched_data_json
    /\ FromIsoFormat(commits[2].generated_at) < FromIsoFormat(commits[1].generated_at)
    /\ recStore = { commits[2] }
    /\ last.res # << >>
    /\ last.res[1].artifact = commits[2].recommendation_json

C14_Witness_Miss ==
    /\ last.op = "get"
    /\ last.res = << >>
    /\ LastCommit(last.key) # << >>
    /\ KeyRows(last.key) = {}

\* ------------------------------------------------------------------ storage failures
\* A statement of the embedded store may fail (sqlite3.OperationalError: disk
\* I/O error, unable to open the database file), and a stored row may hold a
\* text that no longer parses: a data_json json.loads rejects (JSONDecodeError),
\* a timestamp datetime.fromisoformat rejects (ValueError).
Corrupted == "corrupt"
BadTimestamp == << 0, "?", 0 >>

\* the file is damaged under the cache: one column of a stored row is garbled
Corrupt ==
    /\ \/ /\ inst = "raw"
          /\ \E r \in rawStore :
                /\ r.data_json # Corrupted
                /\ rawStore' = (rawStore \ {r}) \cup {[r EXCEPT !.data_json = Corrupted]}
          /\ UNCHANGED <<sumStore, recStore>>
       \/ /\ inst = "summary"
          /\ \E r \in sumStore :
                /\ r.generated_at # BadTimestamp
                /\ sumStore' = (sumStore \ {r}) \cup {[r EXCEPT !.generated_at = BadTimestamp]}
          /\ UNCHANGED <<rawStore, recStore>>
       \/ /\ inst = "recommendation"
          /\ \E r \in recStore :
                /\ r.expires_at # BadTimestamp
                /\ recStore' = (recStore \ {r}) \cup {[r EXCEPT !.expires_at = BadTimestamp]}
          /\ UNCHANGED <<rawStore, sumStore>>
    /\ last' = Idle
    /\ UNCHANGED <<inst, now, ttlConf, callVars>>

\* what an operation does with an exception raised inside it: CacheManager has
\* no try block, the exception leaves the method; SummaryCache and
\* RecommendationCache catch Exception, log it and return None
Failed(op, fault, exc) ==
    /\ last' = IF inst = "raw"
               THEN [op |-> op, fault |-> fault, raised |-> exc]
               ELSE [op |-> op, fault |-> fault, raised |-> "", res |-> << >>]
    /\ UNCHANGED <<inst, now, rawStore, sumStore, recStore, ttlConf, callVars>>

\* CacheManager.get on a store that may fail
GetOrFail(source, entity_type, entity_id, io_error) ==
    LET fetched == RawFetchOne(rawStore, now, _make_cache_key(source, entity_type, entity_id))
    IN  IF io_error
        THEN inst = "raw" /\ Failed("get", "io", "sqlite3.OperationalError")
        ELSE IF fetched # << >> /\ fetched[1].data_json = Corrupted
             THEN inst = "raw" /\ Failed("get", "corrupt", "json.JSONDecodeError")
             ELSE Get(source, entity_type, entity_id)

\* CacheManager.set on a store that may fail
SetOrFail(source, entity_type, entity_id, data, ttl_arg, io_error) ==
    IF io_error
    THEN inst = "raw" /\ Failed("set", "io", "sqlite3.OperationalError")
    ELSE Set(source, entity_type, entity_id, data, ttl_arg)

\* SummaryCache.get_cached_summary on a store that may fail
GetCachedSummaryOrFail(enriched_data, prompt_template, io_error) ==
    LET cache_key == SummaryCacheKey(enriched_data, _compute_prompt_hash(prompt_template))
    IN  IF io_error
        THEN inst = "summary" /\ Failed("get_cached_summary", "io", "sqlite3.OperationalError")
        ELSE IF \E r \in sumStore : r.cache_key = cache_key /\ r.generated_at = BadTimestamp
             THEN inst = "summary" /\ Failed("get_cached_summary", "corrupt", "ValueError")
             ELSE GetCachedSummary(enriched_data, prompt_template)

\* SummaryCache.save_summary on a store that may fail
SaveSummaryOrFail(enriched_data, prompt_template, markdown_text, io_error) ==
    IF io_error
    THEN inst = "summary" /\ Failed("save_summary", "io", "sqlite3.OperationalError")
    ELSE SaveSummary(enriched_data, prompt_template, markdown_text)

\* RecommendationCache.get_cached_recommendation on a store that may fail
GetCachedRecommendationOrFail(deal_id, enriched_data, summary, dep, io_error) ==
    LET cache_key == _get_cache_key(deal_id, _compute_hash(dep[1]), _compute_hash(dep[2]),
                                    CampaignHash(dep[3]))
    IN  IF io_error
        THEN inst = "recommendation"
             /\ Failed("get_cached_recommendation", "io", "sqlite3.OperationalError")
        ELSE IF \E r \in recStore : r.cache_key = cache_key /\ r.expires_at = BadTimestamp
             THEN inst = "recommendation"
                  /\ Failed("get_cached_recommendation", "corrupt", "ValueError")
             ELSE GetCachedRecommendation(deal_id, enriched_data, summary, dep)

\* RecommendationCache.save_recommendation on a store that may fail
SaveRecommendationOrFail(deal_id, enriched_data, summary, dep, markdown, io_error) ==
    IF io_error
    THEN inst = "recommendation"
         /\ Failed("save_recommendation", "io", "sqlite3.OperationalError")
    ELSE SaveRecommendation(deal_id, enriched_data, summary, dep, markdown)

NextFailing ==
    \/ Corrupt
    \/ \E k \in RawKeys, io \in BOOLEAN : GetOrFail(k[1], k[2], k[3], io)
    \/ \E k \in RawKeys, d \in RawData, ttl \in 0..MaxTtl, io \in BOOLEAN :
          SetOrFail(k[1], k[2], k[3], d, ttl, io)
    \/ \E e \in Snapshots, p \in Prompts, io \in BOOLEAN : GetCachedSummaryOrFail(e, p, io)
    \/ \E e \in Snapshots, p \in Prompts, io \in BOOLEAN :
          SaveSummaryOrFail(e, p, "markdown", io)
    \/ \E id \in DealIds, e \in Snapshots, dep \in StoredDependencies, io \in BOOLEAN :
          GetCachedRecommendationOrFail(id, e, NoHash, dep, io)
    \/ \E id \in DealIds, e \in Snapshots, dep \in StoredDependencies, io \in BOOLEAN :
          SaveRecommendationOrFail(id, e, NoHash, dep, "markdown", io)

\* the three caches on a store that may fail
InitFailing == InitCache /\ inst \in {"raw", "summary", "recommendation"}
SpecFailing == InitFailing /\ [][NextFailing]_vars

\* C13 (storage failures never surface): an operation that meets an I/O error or
\* a corrupt row raises nothing: a lookup returns None, a store leaves the rows
\* as they were.
C13_StorageFailureAbsorbed ==
    [][ "fault" \in DOMAIN last'
           => /\ last'.raised = ""
              /\ last'.op \in {"get", "get_cached_summary", "get_cached_recommendation"}
                    => last'.res = << >>
              /\ UNCHANGED <<rawStore, sumStore, recStore>> ]_vars

\* ------------------------------------------------------------------ the diff engine
\* A dict is a function on its keys, a list a sequence; {} and [] are both << >>.
None == "None"

\* dict.get(key, default)
DictGet(d, key, default) == IF key \in DOMAIN d THEN d[key] ELSE default

\* list(a_set): the elements in the order the set yields them
RECURSIVE ListOfSet(_)
ListOfSet(S) ==
    IF S = {} THEN << >>
    ELSE LET x == CHOOSE y \in S : TRUE IN << x >> \o ListOfSet(S \ {x})

\* One piece of text: a label, the items joined into it with ", ", and the
\* number written into it (0: none).
Text(label, items, n) == [label |-> label, items |-> items, n |-> n]

\* _compare_records: <<changes>>, or << >> for None
_compare_records(record_type, old_record, new_record) ==
    LET all_keys == DOMAIN old_record \cup DOMAIN new_record
        changed == { key \in all_keys :
                        DictGet(old_record, key, None) # DictGet(new_record, key, None) }
    IN  IF changed # {}
        THEN << [changed_fields |-> ListOfSet(changed),
                 details |-> [key \in changed |->
                                 [old |-> DictGet(old_record, key, None),
                                  new |-> DictGet(new_record, key, None)]]] >>
        ELSE << >>

\* (mutant) identity taken from the id field only
IdOnly(entity) ==
    IF "id" \in DOMAIN entity THEN ToString(entity.id) ELSE ToString(<< "hash", entity >>)

\* _get_entity_id: str(id), else the email, else str(hash(json.dumps(entity)))
_get_entity_id(entity) ==
    IF "id" \in DOMAIN entity THEN ToString(entity.id)
    ELSE IF "email" \in DOMAIN entity THEN entity.email
    ELSE ToString(<< "hash", entity >>)

\* next((item for item in list if _get_entity_id(item) == entity_id), None)
FirstItem(list, entity_id) ==
    LET found == { i \in DOMAIN list : _get_entity_id(list[i]) = entity_id }
    IN  IF found = {} THEN << >>
        ELSE list[CHOOSE i \in found : \A j \in found : i <= j]

\* (mutant) a diff that flags a change only when an entity was added
FlaggedOnAddedOnly(entity_type, old_list, new_list) ==
    LET old_ids == { _get_entity_id(old_list[i]) : i \in DOMAIN old_list }
        new_ids == { _get_entity_id(new_list[i]) : i \in DOMAIN new_list }
        modified == { entity_id \in old_ids \cap new_ids :
                        FirstItem(old_list, entity_id) # FirstItem(new_list, entity_id) }
    IN  [has_changes |-> new_ids \ old_ids # {},
         summary |-> << "No changes" >>,
         added |-> ListOfSet(new_ids \ old_ids),
         removed |-> ListOfSet(old_ids \ new_ids),
         modified |-> ListOfSet(modified)]

\* (mutant) every entity found on both sides reported as modified
EveryCommonModified(entity_type, old_list, new_list) ==
    LET old_ids == { _get_entity_id(old_list[i]) : i \in DOMAIN old_list }
        new_ids == { _get_entity_id(new_list[i]) : i \in DOMAIN new_list }
        common_ids == old_ids \cap new_ids
    IN  [has_changes |-> old_ids # {} \/ new_ids # {},
         summary |-> << "No changes" >>,
         added |-> ListOfSet(new_ids \ old_ids),
         removed |-> ListOfSet(old_ids \ new_ids),
         modified |-> ListOfSet(common_ids)]

\* _compare_entity_lists
_compare_entity_lists(entity_type, old_list, new_list) ==
    LET old_ids == { _get_entity_id(old_list[i]) : i \in DOMAIN old_list }
        new_ids == { _get_entity_id(new_list[i]) : i \in DOMAIN new_list }
        added_ids == new_ids \ old_ids
        removed_ids == old_ids \ new_ids
        common_ids == old_ids \cap new_ids
        modified == { entity_id \in common_ids :
                        LET old_item == FirstItem(old_list, entity_id)
                            new_item == FirstItem(new_list, entity_id)
                        IN  old_item # << >> /\ new_item # << >> /\ old_item # new_item }
        parts == (IF added_ids # {}
                  THEN << ToString(Cardinality(added_ids)) \o " added" >> ELSE << >>)
                 \o (IF removed_ids # {}
                     THEN << ToString(Cardinality(removed_ids)) \o " removed" >> ELSE << >>)
                 \o (IF modified # {}
                     THEN << ToString(Cardinality(modified)) \o " modified" >> ELSE << >>)
    IN  [has_changes |-> added_ids # {} \/ removed_ids # {} \/ modified # {},
         summary |-> IF parts # << >> THEN parts ELSE << "No changes" >>,
         added |-> ListOfSet(added_ids),
         removed |-> ListOfSet(removed_ids),
         modified |-> ListOfSet(modified)]

\* (mutant) items told apart by id and content
IdsWithContent(items) ==
    { << items[i].id, items[i] >> :
         i \in { j \in DOMAIN items : "id" \in DOMAIN items[j] /\ items[j].id # 0 } }

\* {item.get("id") for item in items if item.get("id")}
InteractionIds(items) ==
    { items[i].id : i \in { j \in DOMAIN items : "id" \in DOMAIN items[j] /\ items[j].id # 0 } }

\* (mutant) a history diff that always flags a change and says nothing
SilentHistoryChange(old_history, new_history) ==
    [has_changes |-> TRUE, summary_items |-> << >>]

\* _compare_interaction_history
_compare_interaction_history(old_history, new_history) ==
    LET ItemsOf(interaction_type) ==
            LET old_ids == InteractionIds(DictGet(old_history, interaction_type, << >>))
                new_ids == InteractionIds(DictGet(new_history, interaction_type, << >>))
                added == new_ids \ old_ids
                removed == old_ids \ new_ids
            IN  (IF added # {}
                 THEN << Text("new " \o interaction_type, << >>, Cardinality(added)) >>
                 ELSE << >>)
                \o (IF removed # {}
                    THEN << Text(interaction_type \o " removed", << >>, Cardinality(removed)) >>
                    ELSE << >>)
        summary_items == ItemsOf("notes") \o ItemsOf("tasks")
    IN  [has_changes |-> summary_items # << >>, summary_items |-> summary_items]

EntityTypes == << "contacts", "companies", "deals" >>

\* str.title() on the entity types
Title(entity_type) ==
    CASE entity_type = "contacts" -> "Contacts"
      [] entity_type = "companies" -> "Companies"
      [] entity_type = "deals" -> "Deals"

NoSignificantChanges == Text("No significant changes detected", << >>, 0)

\* compute_enriched_data_diff
compute_enriched_data_diff(old_data, new_data) ==
    LET old_primary == DictGet(old_data, "primary_record", << >>)
        new_primary == DictGet(new_data, "primary_record", << >>)
        primary_changes == IF old_primary # new_primary
                           THEN _compare_records("primary_record", old_primary, new_primary)
                           ELSE << >>
        old_entities == DictGet(old_data, "related_entities", << >>)
        new_entities == DictGet(new_data, "related_entities", << >>)
        EntityDiff(entity_type) ==
            _compare_entity_lists(entity_type,
                                  DictGet(old_entities, entity_type, << >>),
                                  DictGet(new_entities, entity_type, << >>))
        history_diff ==
            _compare_interaction_history(DictGet(old_data, "interaction_history", << >>),
                                         DictGet(new_data, "interaction_history", << >>))
        sections == (IF primary_changes # << >> THEN {"primary_record"} ELSE {})
                    \cup { EntityTypes[i] : i \in { j \in DOMAIN EntityTypes :
                                                      EntityDiff(EntityTypes[j]).has_changes } }
                    \cup (IF history_diff.has_changes THEN {"interaction_history"} ELSE {})
        EntitySummary(entity_type) ==
            IF entity_type \in sections
            THEN << Text(Title(entity_type) \o ": ", EntityDiff(entity_type).summary, 0) >>
            ELSE << >>
        summary == (IF primary_changes # << >>
                    THEN << Text("Primary record updated: ",
                                 primary_changes[1].changed_fields, 0) >>
                    ELSE << >>)
                   \o EntitySummary("contacts") \o EntitySummary("companies")
                   \o EntitySummary("deals")
                   \o (IF history_diff.has_changes THEN history_diff.summary_items ELSE << >>)
    IN  [summary |-> IF summary = << >> THEN << NoSignificantChanges >> ELSE summary,
         details |-> [k \in sections |->
                         CASE k = "primary_record" -> primary_changes[1]
                           [] k = "interaction_history" -> history_diff
                           [] OTHER -> EntityDiff(k)]]

\* the ids of a list that format_diff_for_ai writes out
ShownIds == 5

\* ids[:5]
FirstIds(ids) == SubSeq(ids, 1, IF Len(ids) < ShownIds THEN Len(ids) ELSE ShownIds)

\* the lines format_diff_for_ai writes for one added or removed list
IdLines(label, ids) ==
    IF ids # << >>
    THEN << Text(label, FirstIds(ids), Len(ids)) >>
         \o (IF Len(ids) > ShownIds
             THEN << Text("  ... and more", << >>, Len(ids) - ShownIds) >> ELSE << >>)
    ELSE << >>

\* format_diff_for_ai: the lines it joins with "\n"
format_diff_for_ai(diff) ==
    LET details == diff.details
        Bullet(item) == Text("- " \o item.label, item.items, item.n)
        blank == Text("", << >>, 0)
        EntityLines(entity_type) ==
            IF entity_type \in DOMAIN details
            THEN LET entity_diff == details[entity_type]
                 IN  << Text("## " \o Title(entity_type) \o " Changes", << >>, 0) >>
                     \o IdLines("- **Added**: ", entity_diff.added)
                     \o IdLines("- **Removed**: ", entity_diff.removed)
                     \o (IF entity_diff.modified # << >>
                         THEN << Text("- **Modified**: " \o entity_type, << >>,
                                      Len(entity_diff.modified)) >>
                         ELSE << >>)
                     \o << blank >>
            ELSE << >>
    IN  IF diff.summary = << >> \/ diff.summary = << NoSignificantChanges >>
        THEN << Text("# Changes Since Last Summary\n", << >>, 0),
                Text("**No significant changes detected in the data.**\n", << >>, 0) >>
        ELSE << Text("# Changes Since Last Summary\n", << >>, 0),
                Text("## Summary of Changes", << >>, 0) >>
             \o [i \in DOMAIN diff.summary |-> Bullet(diff.summary[i])]
             \o << blank >>
             \o (IF "primary_record" \in DOMAIN details
                 THEN << Text("## Primary Record Changes", << >>, 0),
                         Text("Fields updated: ", details["primary_record"].changed_fields, 0),
                         blank >>
                 ELSE << >>)
             \o EntityLines("contacts") \o EntityLines("companies") \o EntityLines("deals")
             \o (IF "interaction_history" \in DOMAIN details
                    /\ details["interaction_history"].summary_items # << >>
                 THEN << Text("## Interaction History Changes", << >>, 0) >>
                      \o [i \in DOMAIN details["interaction_history"].summary_items |->
                             Bullet(details["interaction_history"].summary_items[i])]
                      \o << blank >>
                 ELSE << >>)

\* ------------------------------------------------------------------ snapshots handed to the diff engine
\* the name of the i-th business field of the primary record
FieldName(i) == "field_" \o ToString(i)

\* a deal whose first `changed` business fields were edited
PrimaryRecord(changed, upd) ==
    [k \in { FieldName(i) : i \in 1..MaxFields } \cup {"id", "updated_at"} |->
        IF k = "id" THEN "deal-1"
        ELSE IF k = "updated_at" THEN upd
        ELSE IF k \in { FieldName(i) : i \in 1..changed } THEN "new" ELSE "old"]

\* a dict without one of its keys
Without(d, key) == [k \in (DOMAIN d) \ {key} |-> d[k]]

Primaries ==
    { PrimaryRecord(n, "t1") : n \in 0..MaxFields }
    \cup { PrimaryRecord(0, "t2"), PrimaryRecord(1, "t2"),
           Without(PrimaryRecord(0, "t1"), FieldName(1)),
           [PrimaryRecord(0, "t1") EXCEPT ![FieldName(1)] = None] }

\* related entities: with an id, with an email only, with neither
Contact(id, name, upd) == [id |-> id, name |-> name, updated_at |-> upd]
ByEmail(email, name) == [email |-> email, name |-> name]
Anonymous(name) == [name |-> name]

\* the entities a..b, untouched
ContactRange(a, b) == [i \in 1..(b - a + 1) |-> Contact(a + i - 1, "n", "t1")]

EntityLists ==
    { ContactRange(a, b) : a \in 1..2, b \in 1..MaxEntities }
    \cup { << >>,
           << Contact(1, "m", "t1") >>, << Contact(1, "n", "t2") >>,
           << Contact(1, "n", "t1"), Contact(1, "m", "t1") >>,
           << Contact(1, "m", "t1"), Contact(1, "n", "t1") >>,
           << ByEmail("a@x", "n") >>, << ByEmail("a@x", "m") >>,
           << Anonymous("n") >>, << Anonymous("m") >>,
           << Contact(2, "n", "t1"), ByEmail("a@x", "n"), Anonymous("n") >>,
           << Contact(1, "m", "t1"), Contact(3, "n", "t1") >>,
           << << >> >> }

SmallLists ==
    { << >>, ContactRange(1, 1), ContactRange(1, 2), << Contact(1, "m", "t1") >> }

\* notes and tasks: with an id, with a falsy id, without one
Interaction(id, body) == [id |-> id, body |-> body]
InteractionLists ==
    { << >>, << Interaction(1, "a") >>, << Interaction(1, "b") >>,
      << Interaction(1, "a"), Interaction(2, "a") >>,
      << Interaction(0, "a") >>, << [body |-> "a"] >>, << [body |-> "b"] >> }

Snapshot(primary, contacts, companies, deals, notes, tasks, meta) ==
    [primary_type |-> "deal",
     primary_record |-> primary,
     related_entities |-> [contacts |-> contacts, companies |-> companies, deals |-> deals],
     interaction_history |-> [notes |-> notes, tasks |-> tasks],
     metadata |-> [enrichment_timestamp |-> meta]]

\* snapshots that lack a part
Partial ==
    LET full == Snapshot(PrimaryRecord(0, "t1"), ContactRange(1, 1), ContactRange(1, 1),
                         << >>, << Interaction(1, "a") >>, << >>, "r1")
    IN  { full, Without(full, "primary_record"), Without(full, "related_entities"),
          Without(full, "interaction_history"),
          [full EXCEPT !.related_entities = Without(full.related_entities, "contacts")],
          [full EXCEPT !.interaction_history = Without(full.interaction_history, "notes")],
          [full EXCEPT !.related_entities.contacts = << >>],
          << >> }

\* the pairs (old_data, new_data): each part of a snapshot varied on its own,
\* then several at once, then whole snapshots against themselves
DiffInputs ==
    LET base == PrimaryRecord(0, "t1")
    IN  { << Snapshot(p, << >>, << >>, << >>, << >>, << >>, "r1"),
             Snapshot(q, << >>, << >>, << >>, << >>, << >>, "r1") >> :
             p \in Primaries, q \in Primaries }
        \cup { << Snapshot(base, c, << >>, << >>, << >>, << >>, "r1"),
                  Snapshot(base, d, << >>, << >>, << >>, << >>, "r1") >> :
                  c \in EntityLists, d \in EntityLists }
        \cup { << Snapshot(base, << >>, c, c, << >>, << >>, "r1"),
                  Snapshot(base, << >>, d, e, << >>, << >>, "r2") >> :
                  c \in SmallLists, d \in SmallLists, e \in SmallLists }
        \cup { << Snapshot(base, << >>, << >>, << >>, m, << Interaction(1, "a") >>, "r1"),
                  Snapshot(base, << >>, << >>, << >>, n, t, "r1") >> :
                  m \in InteractionLists, n \in InteractionLists,
                  t \in { << >>, << Interaction(1, "a") >>, << Interaction(2, "a") >> } }
        \cup { << s, t >> : s \in Partial, t \in Partial }
        \cup { << Snapshot(PrimaryRecord(0, "t1"), c, << >>, c, m, << >>, "r1"),
                  Snapshot(PrimaryRecord(n, u), d, << >>, d, m, m, "r2") >> :
                  c \in SmallLists, d \in SmallLists, n \in {0, MaxFields}, u \in {"t1", "t2"},
                  m \in { << >>, << Interaction(1, "a") >> } }
        \cup { << s, s >> :
                  s \in { Snapshot(p, c, << >>, d, m, m, "r1") :
                            p \in Primaries, c \in EntityLists,
                            d \in { << >>, ContactRange(1, 2) },
                            m \in { << >>, << Interaction(1, "a") >>, << [body |-> "a"] >> } } }

\* ------------------------------------------------------------------ the diff engine's specification
InitDiff ==
    /\ inst = "diff"
    /\ now = 0
    /\ rawStore = {}
    /\ sumStore = {}
    /\ recStore = {}
    /\ ttlConf = 0
    /\ last = Idle
    /\ arg \in DiffInputs
    /\ parsing = NotParsing
    /\ debugFile = NoFile
    /\ calls = [p \in Procs |-> NoCall]
    /\ commits = << >>

\* diff = compute_enriched_data_diff(old_data, new_data)
ComputeDiff ==
    /\ inst = "diff"
    /\ last = Idle
    /\ last' = [op |-> "compute_enriched_data_diff", old_data |-> arg[1], new_data |-> arg[2],
                res |-> compute_enriched_data_diff(arg[1], arg[2])]
    /\ UNCHANGED <<inst, now, rawStore, sumStore, recStore, ttlConf, callVars>>

\* format_diff_for_ai(diff)
FormatDiff ==
    /\ inst = "diff"
    /\ last.op = "compute_enriched_data_diff"
    /\ last' = [op |-> "format_diff_for_ai", diff |-> last.res,
                res |-> format_diff_for_ai(last.res)]
    /\ UNCHANGED <<inst, now, rawStore, sumStore, recStore, ttlConf, callVars>>

\* _compare_entity_lists("contacts", old_list, new_list) on the contacts of the
\* two snapshots
CompareEntityLists ==
    /\ inst = "diff"
    /\ last = Idle
    /\ LET old_list == DictGet(DictGet(arg[1], "related_entities", << >>), "contacts", << >>)
           new_list == DictGet(DictGet(arg[2], "related_entities", << >>), "contacts", << >>)
       IN  last' = [op |-> "_compare_entity_lists", old_list |-> old_list,
                    new_list |-> new_list,
                    res |-> _compare_entity_lists("contacts", old_list, new_list)]
    /\ UNCHANGED <<inst, now, rawStore, sumStore, recStore, ttlConf, callVars>>

NextDiff == ComputeDiff \/ FormatDiff \/ CompareEntityLists

SpecDiff == InitDiff /\ [][NextDiff]_vars

\* ------------------------------------------------------------------ claims on the diff engine
\* C17 (diff emptiness): a snapshot diffed against itself has no entry in details
\* and a summary that is exactly the one canned line.
C17_DiffEmptiness ==
    (last.op = "compute_enriched_data_diff" /\ last.old_data = last.new_data)
       => /\ DOMAIN last.res.details = {}
          /\ last.res.summary = << NoSignificantChanges >>

\* a snapshot with a changed deal, several contacts and a note, diffed against itself
C17_Witness ==
    /\ last.op = "compute_enriched_data_diff"
    /\ last.old_data = last.new_data
    /\ last.old_data # << >>
    /\ "related_entities" \in DOMAIN last.old_data
    /\ Len(last.old_data.related_entities.deals) >= 2
    /\ last.old_data.interaction_history.notes # << >>
    /\ last.res.summary = << NoSignificantChanges >>

\* the identity the diff gives an entity: its id, else its email, else a
\* structural hash of the record
C18_Identity(entity) ==
    IF "id" \in DOMAIN entity THEN ToString(entity.id)
    ELSE IF "email" \in DOMAIN entity THEN entity.email
    ELSE ToString(<< "hash", entity >>)

\* the records of a list that carry an identity
C18_Records(list, identity) ==
    { list[i] : i \in { j \in DOMAIN list : C18_Identity(list[j]) = identity } }

\* the elements of a list
C18_Elements(list) == { list[i] : i \in DOMAIN list }

\* what one entity type's lists of the last diff say, against the two collections
C18_Correct(entity_type) ==
    LET old_entities == DictGet(last.old_data, "related_entities", << >>)
        new_entities == DictGet(last.new_data, "related_entities", << >>)
        old_list == DictGet(old_entities, entity_type, << >>)
        new_list == DictGet(new_entities, entity_type, << >>)
        old_ids == { C18_Identity(e) : e \in C18_Elements(old_list) }
        new_ids == { C18_Identity(e) : e \in C18_Elements(new_list) }
        reported == entity_type \in DOMAIN last.res.details
        added == IF reported THEN last.res.details[entity_type].added ELSE << >>
        removed == IF reported THEN last.res.details[entity_type].removed ELSE << >>
        modified == IF reported THEN last.res.details[entity_type].modified ELSE << >>
    IN  /\ C18_Elements(added) = new_ids \ old_ids
        /\ C18_Elements(removed) = old_ids \ new_ids
        /\ C18_Elements(modified) \subseteq old_ids \cap new_ids
        /\ Len(added) = Cardinality(C18_Elements(added))
        /\ Len(removed) = Cardinality(C18_Elements(removed))
        /\ Len(modified) = Cardinality(C18_Elements(modified))
        /\ \A identity \in old_ids \cap new_ids :
              LET old_records == C18_Records(old_list, identity)
                  new_records == C18_Records(new_list, identity)
              IN  /\ identity \in C18_Elements(modified)
                        => \E o \in old_records, n \in new_records : o # n
                  /\ (Cardinality(old_records) = 1 /\ Cardinality(new_records) = 1)
                        => (identity \in C18_Elements(modified) <=> old_records # new_records)

\* C18 (collection diff correctness): for contacts, companies and deals, with
\* identity = id, else email, else structural hash: added is exactly the
\* identities only in the new list, removed exactly those only in the old list,
\* modified exactly those on both sides whose records are not equal; a missing
\* collection counts as empty.
C18_CollectionDiffCorrectness ==
    last.op = "compute_enriched_data_diff"
       => \A entity_type \in {"contacts", "companies", "deals"} : C18_Correct(entity_type)

\* old contacts 1, 2 and new contacts 2, 3: 3 added, 1 removed, none modified
C18_Witness ==
    /\ last.op = "compute_enriched_data_diff"
    /\ "contacts" \in DOMAIN last.res.details
    /\ last.res.details["contacts"].added = << "3" >>
    /\ last.res.details["contacts"].removed = << "1" >>
    /\ last.res.details["contacts"].modified = << >>

\* an entity known by its email whose record changed, and a collection that is
\* missing on the old side
C18_Witness_Modified ==
    /\ last.op = "compute_enriched_data_diff"
    /\ "contacts" \in DOMAIN last.res.details
    /\ last.res.details["contacts"].modified = << "a@x" >>

C18_Witness_Missing ==
    /\ last.op = "compute_enriched_data_diff"
    /\ last.old_data # << >>
    /\ "related_entities" \notin DOMAIN last.old_data
    /\ "contacts" \in DOMAIN last.res.details
    /\ last.res.details["contacts"].added # << >>

\* the last diff reports nothing
C19_NoChanges ==
    /\ DOMAIN last.res.details = {}
    /\ last.res.summary = << NoSignificantChanges >>

\* C19 (diff after canonicalisation): two snapshots with equal snapshot digests in
\* the summary cache, that is snapshots that differ in volatile fields only,
\* diff to the empty result.
C19_DiffCanonicalizes ==
    (/\ last.op = "compute_enriched_data_diff"
     /\ last.old_data # << >>
     /\ last.new_data # << >>
     /\ SummaryDataHash(last.old_data) = SummaryDataHash(last.new_data))
       => C19_NoChanges

\* the id lists of the diff the formatter was given
C20_IdLists ==
    { << label, last.diff.details[t][field] >> :
         << label, field >> \in { << "- **Added**: ", "added" >>, << "- **Removed**: ", "removed" >> },
         t \in { u \in {"contacts", "companies", "deals"} : u \in DOMAIN last.diff.details } }

\* every id list is written as its first 5 ids, then "and N more" with N = length - 5
C20_IdListsCut ==
    /\ \A l \in { m \in C20_IdLists : m[2] # << >> } :
          \E i \in DOMAIN last.res :
             /\ last.res[i].label = l[1]
             /\ last.res[i].items = SubSeq(l[2], 1, IF Len(l[2]) < 5 THEN Len(l[2]) ELSE 5)
             /\ Len(l[2]) > 5
                   => /\ i + 1 \in DOMAIN last.res
                      /\ last.res[i + 1] = Text("  ... and more", << >>, Len(l[2]) - 5)
    /\ \A i \in DOMAIN last.res :
          last.res[i].label \in {"- **Added**: ", "- **Removed**: "}
             => \E l \in C20_IdLists : l[1] = last.res[i].label /\ Len(l[2]) = last.res[i].n

\* C20 (bounded formatter output): every id list is cut to its first 5 entries
\* and an "and N more" line, and no line of the text carries more than 5 ids or
\* field names, however many fields or entities changed.
C20_FormatterBounded ==
    last.op = "format_diff_for_ai"
       => /\ C20_IdListsCut
          /\ \A i \in DOMAIN last.res : Len(last.res[i].items) <= 5

\* ------------------------------------------------------------------ claims on the derived status
\* C21 (default status derivation): an action constructed with status pending
\* (the default) or prerequisites_incomplete ends prerequisites_incomplete if and
\* only if one of its prerequisites is blocking and not completed; otherwise it
\* ends pending or ready.
C21_DefaultStatusDerivation ==
    (Constructed /\ arg.status \in {"pending", "prerequisites_incomplete"})
       => LET held == \E i \in 1..Len(arg.prerequisites) :
                         /\ arg.prerequisites[i].blocking
                         /\ arg.prerequisites[i].status # "completed"
          IN  /\ last.res[1].status = "prerequisites_incomplete" <=> held
              /\ ~held => last.res[1].status \in {"pending", "ready"}

\* one blocking prerequisite at todo: pending becomes prerequisites_incomplete
C21_Witness ==
    /\ Constructed
    /\ arg.status = "pending"
    /\ Len(arg.prerequisites) = 1
    /\ arg.prerequisites[1].blocking /\ arg.prerequisites[1].status = "todo"
    /\ last.res[1].status = "prerequisites_incomplete"

\* the blocking prerequisite completed: prerequisites_incomplete becomes ready
C21_Witness_Ready ==
    /\ Constructed
    /\ arg.status = "prerequisites_incomplete"
    /\ Len(arg.prerequisites) = 1
    /\ arg.prerequisites[1].blocking /\ arg.prerequisites[1].status = "completed"
    /\ last.res[1].status = "ready"

\* only a non-blocking prerequisite incomplete: pending stays pending
C21_Witness_NonBlocking ==
    /\ Constructed
    /\ arg.status = "pending"
    /\ Len(arg.prerequisites) = 1
    /\ ~arg.prerequisites[1].blocking /\ arg.prerequisites[1].status = "in_progress"
    /\ last.res[1].status = "pending"

\* ================================================================== the collection of actions
\* src/src/brevo_sales/recommendations/action_models.py (ActionRecommendations)
\* src/src/brevo_sales/recommendations/parser.py (validate_action_completeness)
MaxActions == 2     \* p0_actions lists of 0..MaxActions entries

\* ActionRecommendations.all_actions
all_actions(recs) == recs.p0_actions \o recs.p1_actions \o recs.p2_actions

\* ActionRecommendations.ready_actions
ready_actions(recs) ==
    LET IsReady(action) == action.status \in {"ready", "pending"}
    IN  SelectSeq(all_actions(recs), IsReady)

\* one warning of the soft audit: the action it is about, what it says, and the
\* length it quotes (0: none)
Warning(priority, i, text, n) == [priority |-> priority, i |-> i, text |-> text, n |-> n]

\* (mutant) an audit that asks for a longer rationale than the model does
StricterAudit(priority, i, action) ==
    IF TextLen(action.rationale) < 61
    THEN << Warning(priority, i, "Rationale too short", TextLen(action.rationale)) >>
    ELSE << >>

\* the warnings validate_action_completeness collects for one action
ActionWarnings(priority, i, action) ==
    (IF TextLen(action.rationale) < 50
     THEN << Warning(priority, i, "Rationale too short", TextLen(action.rationale)) >>
     ELSE << >>)
    \o (IF TextLen(action.context) < 30
        THEN << Warning(priority, i, "Context too short", TextLen(action.context)) >>
        ELSE << >>)
    \o (IF action.success_metrics = << >>
        THEN << Warning(priority, i, "No success metrics defined", 0) >> ELSE << >>)
    \o (IF action.action.type = "email"
        THEN (IF TextLen(action.action.content) < 50
              THEN << Warning(priority, i, "Email content too short", 0) >> ELSE << >>)
             \o (IF TextLen(action.action.subject) < 5
                 THEN << Warning(priority, i, "Email subject too short", 0) >> ELSE << >>)
        ELSE IF action.action.type = "phone"
        THEN (IF Len(action.action.talking_points) < 2
              THEN << Warning(priority, i, "Phone action needs at least 2 talking points", 0) >>
              ELSE << >>)
        ELSE << >>)

\* ActionParser.validate_action_completeness
validate_action_completeness(recs) ==
    LET RECURSIVE Collect(_, _, _)
        Collect(priority, actions, i) ==
            IF i > Len(actions) THEN << >>
            ELSE ActionWarnings(priority, i, actions[i]) \o Collect(priority, actions, i + 1)
    IN  Collect("P0", recs.p0_actions, 1) \o Collect("P1", recs.p1_actions, 1)
        \o Collect("P2", recs.p2_actions, 1)

\* the data a collection is built from: p0 lists of actions of every status with
\* and without blocking prerequisites; one action of every channel sample and
\* wrapper sample; data without action lists; data pydantic rejects
RecommendationInputs ==
    LET Data(summary, p0, p1, p2) ==
            [deal_id |-> "deal-1", deal_name |-> "Acme", executive_summary |-> summary,
             key_insights |-> << Sentence(20) >>, p0_actions |-> p0, p1_actions |-> p1,
             p2_actions |-> p2, overall_strategy |-> Sentence(120), data_version |-> "v1"]
        by_status ==
            { WrapperBase(EmailBase, ps, st) :
                 ps \in { l \in PrerequisiteLists :
                             /\ Len(l) <= 1
                             /\ \A i \in 1..Len(l) : ~has_placeholders(l[i].task) },
                 st \in {"pending", "prerequisites_incomplete", "ready", "completed"} }
        by_sample ==
            UNION { WrapperSamples(WrapperBase(a, << >>, "pending")) : a \in ActionSamples }
        plain == WrapperBase(EmailBase, << >>, "pending")
    IN  { Data(Sentence(120), p0, p1, << plain >>) :
             p0 \in UNION { [1..k -> by_status] : k \in 0..MaxActions },
             p1 \in { << >>, << WrapperBase(EmailBase, << >>, "executing") >> } }
        \cup { Data(Sentence(120), << >>, << w >>, << >>) : w \in by_sample }
        \cup { Data(Sentence(120), << plain >>, << plain >>, << w >>) : w \in by_sample }
        \cup { Data(Sentence(20), << plain >>, << >>, << >>),
               [deal_id |-> "deal-1", deal_name |-> "Acme",
                executive_summary |-> Sentence(120), key_insights |-> << Sentence(20) >>,
                overall_strategy |-> Sentence(120), data_version |-> "v1"] }

InitRecommendations ==
    /\ inst = "recommendations"
    /\ now = 0
    /\ rawStore = {}
    /\ sumStore = {}
    /\ recStore = {}
    /\ ttlConf = 0
    /\ last = Idle
    /\ arg \in RecommendationInputs
    /\ parsing = NotParsing
    /\ debugFile = NoFile
    /\ calls = [p \in Procs |-> NoCall]
    /\ commits = << >>

\* ActionRecommendations(**arg): << >> when pydantic raises ValidationError
BuildRecommendations ==
    /\ inst = "recommendations"
    /\ last = Idle
    /\ last' = [op |-> "ActionRecommendations",
                res |-> IF ActionRecommendationsValid(arg)
                        THEN << NewActionRecommendations(arg) >> ELSE << >>]
    /\ UNCHANGED <<inst, now, rawStore, sumStore, recStore, ttlConf, callVars>>

\* recs.ready_actions on the collection just built
ReadyActions ==
    /\ inst = "recommendations"
    /\ last.op = "ActionRecommendations"
    /\ last.res # << >>
    /\ last' = [op |-> "ready_actions", recs |-> last.res[1],
                res |-> ready_actions(last.res[1])]
    /\ UNCHANGED <<inst, now, rawStore, sumStore, recStore, ttlConf, callVars>>

\* ActionParser().validate_action_completeness(recs) on the collection just built
ValidateCompleteness ==
    /\ inst = "recommendations"
    /\ last.op = "ActionRecommendations"
    /\ last.res # << >>
    /\ last' = [op |-> "validate_action_completeness", recs |-> last.res[1],
                res |-> validate_action_completeness(last.res[1])]
    /\ UNCHANGED <<inst, now, rawStore, sumStore, recStore, ttlConf, callVars>>

NextRecommendations == BuildRecommendations \/ ReadyActions \/ ValidateCompleteness

SpecRecommendations == InitRecommendations /\ [][NextRecommendations]_vars

\* ------------------------------------------------------------------ claims on the collection
\* a blocking prerequisite of the action is not completed
C22_Blocked(action) ==
    \E i \in 1..Len(action.prerequisites) :
        action.prerequisites[i].blocking /\ action.prerequisites[i].status # "completed"

\* C22 (ready actions): every action ready_actions returns has status ready or
\* pending and no blocking prerequisite that is not completed, and every action
\* of the collection with an incomplete blocking prerequisite is absent from it.
C22_ReadyActionsAreReady ==
    last.op = "ready_actions"
       => /\ \A i \in 1..Len(last.res) :
                /\ last.res[i].status \in {"ready", "pending"}
                /\ ~C22_Blocked(last.res[i])
          /\ \A i \in 1..Len(all_actions(last.recs)) :
                C22_Blocked(all_actions(last.recs)[i])
                   => \A j \in 1..Len(last.res) : last.res[j] # all_actions(last.recs)[i]

C29_Rejected ==
    (/\ last.op = "ActionRecommendations"
     /\ \E key \in {"p0_actions", "p1_actions", "p2_actions"} \cap DOMAIN arg :
           \E i \in 1..Len(arg[key]) :
              \/ TextLen(arg[key][i].rationale) < 50
              \/ TextLen(arg[key][i].context) < 30
              \/ arg[key][i].success_metrics = << >>
              \/ arg[key][i].action.type = "email"
                    /\ (TextLen(arg[key][i].action.content) < 50
                        \/ TextLen(arg[key][i].action.subject) < 5)
              \/ arg[key][i].action.type = "phone"
                    /\ Len(arg[key][i].action.talking_points) < 2)
       => last.res = << >>

\* ------------------------------------------------------------------ claims on the shape of a ParseResult
\* a collection as validation leaves it
C28_Validated(recs) ==
    /\ TextLen(recs.executive_summary) >= 100
    /\ Len(recs.key_insights) >= 1
    /\ TextLen(recs.overall_strategy) >= 100
    /\ \A i \in 1..Len(all_actions(recs)) : ExecutableActionValid(all_actions(recs)[i])

\* C28 (two shapes of a ParseResult): parse returns either success with
\* tier_used 1, 2 or 3, a validated collection as data and no error, or failure
\* with no tier, no data and a non-empty error.
C28_ParseResultShapes ==
    last.op = "parse"
       => \/ /\ last.res.success
             /\ last.res.tier_used \in {1, 2, 3}
             /\ last.res.data # << >>
             /\ C28_Validated(last.res.data[1])
             /\ last.res.error = ""
          \/ /\ ~last.res.success
             /\ last.res.tier_used = NoTier
             /\ last.res.data = << >>
             /\ last.res.error # ""

\* a response parsed by the second tier, with an action in its collection
C28_Witness ==
    /\ last.op = "parse"
    /\ last.res.success
    /\ last.res.tier_used = 2
    /\ last.res.data[1].p0_actions # << >>

\* a response no tier could parse
C28_Witness_Failure ==
    /\ last.op = "parse"
    /\ ~last.res.success
    /\ parsing.tried = << 1, 2, 3 >>

\* ------------------------------------------------------------------ claims on the interaction history
\* the ids of the notes or tasks of a snapshot; an item whose id is missing or
\* empty has none
C23_Ids(data, interaction_type) ==
    LET history == DictGet(data, "interaction_history", << >>)
        items == DictGet(history, interaction_type, << >>)
    IN  { items[i].id : i \in { j \in DOMAIN items : "id" \in DOMAIN items[j] /\ items[j].id # 0 } }

\* the counts the diff is to report for one interaction type
C23_Counts(interaction_type) ==
    LET added == C23_Ids(last.new_data, interaction_type) \ C23_Ids(last.old_data, interaction_type)
        removed == C23_Ids(last.old_data, interaction_type) \ C23_Ids(last.new_data, interaction_type)
    IN  (IF added # {}
         THEN << Text("new " \o interaction_type, << >>, Cardinality(added)) >> ELSE << >>)
        \o (IF removed # {}
            THEN << Text(interaction_type \o " removed", << >>, Cardinality(removed)) >>
            ELSE << >>)

\* C23 (interaction-history diff): notes and tasks are told apart by id alone and
\* items without an id take no part; the diff reports the number of ids added
\* and the number removed, nothing else, so an item whose id is on both sides
\* and whose content changed gives no entry.
C23_InteractionHistoryCounts ==
    last.op = "compute_enriched_data_diff"
       => LET counts == C23_Counts("notes") \o C23_Counts("tasks")
          IN  IF counts = << >>
              THEN "interaction_history" \notin DOMAIN last.res.details
              ELSE /\ "interaction_history" \in DOMAIN last.res.details
                   /\ last.res.details["interaction_history"]
                         = [has_changes |-> TRUE, summary_items |-> counts]

\* a note whose content changed under the same id: nothing reported
C23_Witness ==
    /\ last.op = "compute_enriched_data_diff"
    /\ last.old_data # << >> /\ last.new_data # << >>
    /\ "interaction_history" \in DOMAIN last.old_data
    /\ "interaction_history" \in DOMAIN last.new_data
    /\ "notes" \in DOMAIN last.old_data.interaction_history
    /\ "notes" \in DOMAIN last.new_data.interaction_history
    /\ last.old_data.interaction_history.notes # last.new_data.interaction_history.notes
    /\ C23_Ids(last.old_data, "notes") = {1}
    /\ C23_Ids(last.new_data, "notes") = {1}
    /\ "interaction_history" \notin DOMAIN last.res.details

\* a note without an id replaced by another one: nothing reported; a task added
\* at the same time: one new task
C23_Witness_NoId ==
    /\ last.op = "compute_enriched_data_diff"
    /\ last.old_data # << >> /\ last.new_data # << >>
    /\ "interaction_history" \in DOMAIN last.old_data
    /\ "interaction_history" \in DOMAIN last.new_data
    /\ "notes" \in DOMAIN last.old_data.interaction_history
    /\ "notes" \in DOMAIN last.new_data.interaction_history
    /\ last.old_data.interaction_history.notes = << [body |-> "a"] >>
    /\ last.new_data.interaction_history.notes = << [body |-> "b"] >>
    /\ "interaction_history" \in DOMAIN last.res.details
    /\ last.res.details["interaction_history"].summary_items
          = << Text("new tasks", << >>, 1), Text("tasks removed", << >>, 1) >>

\* ------------------------------------------------------------------ claims on the lists of one entity type
\* C26 (the three lists of an entity diff): added, removed and modified are
\* pairwise disjoint; added holds identities of the new list, removed of the old
\* list, modified of both; has_changes is true if and only if one of the three
\* is not empty.
C26_EntityDiffWellFormed ==
    last.op = "_compare_entity_lists"
       => LET added == C18_Elements(last.res.added)
              removed == C18_Elements(last.res.removed)
              modified == C18_Elements(last.res.modified)
              old_ids == { C18_Identity(e) : e \in C18_Elements(last.old_list) }
              new_ids == { C18_Identity(e) : e \in C18_Elements(last.new_list) }
          IN  /\ added \cap removed = {}
              /\ added \cap modified = {}
              /\ removed \cap modified = {}
              /\ added \subseteq new_ids
              /\ removed \subseteq old_ids
              /\ modified \subseteq old_ids \cap new_ids
              /\ last.res.has_changes <=> (added # {} \/ removed # {} \/ modified # {})

\* lists with an entity added, one removed and one modified at the same time
C26_Witness ==
    /\ last.op = "_compare_entity_lists"
    /\ last.res.added # << >>
    /\ last.res.removed # << >>
    /\ last.res.modified # << >>
    /\ last.res.has_changes

\* two equal lists: nothing in the three lists and no change flagged
C26_Witness_Unchanged ==
    /\ last.op = "_compare_entity_lists"
    /\ last.old_list # << >>
    /\ last.old_list = last.new_list
    /\ ~last.res.has_changes

\* ------------------------------------------------------------------ claims on the summary of a diff
\* the labels of the summary lines a section of details is announced by
C27_Labels(section) ==
    CASE section = "primary_record" -> {"Primary record updated: "}
      [] section = "contacts" -> {"Contacts: "}
      [] section = "companies" -> {"Companies: "}
      [] section = "deals" -> {"Deals: "}
      [] section = "interaction_history" ->
            {"new notes", "notes removed", "new tasks", "tasks removed"}

\* C27 (details and summary agree): details is empty if and only if the summary
\* is exactly the one canned line; every section of details has at least one
\* summary line of its own; the summary is never empty.
C27_SummaryMatchesDetails ==
    last.op = "compute_enriched_data_diff"
       => /\ DOMAIN last.res.details = {} <=> last.res.summary = << NoSignificantChanges >>
          /\ last.res.summary # << >>
          /\ DOMAIN last.res.details
                \subseteq {"primary_record", "contacts", "companies", "deals",
                           "interaction_history"}
          /\ \A section \in DOMAIN last.res.details :
                \E i \in DOMAIN last.res.summary :
                   last.res.summary[i].label \in C27_Labels(section)

\* a diff with a changed deal, changed contacts and deals, and changed notes
C27_Witness ==
    /\ last.op = "compute_enriched_data_diff"
    /\ {"primary_record", "contacts", "deals", "interaction_history"}
          \subseteq DOMAIN last.res.details
    /\ Len(last.res.summary) >= 4

\* primary records that differ as dicts (a field missing on one side, None on
\* the other) without a changed field: no section, the canned line
C27_Witness_NoneField ==
    /\ last.op = "compute_enriched_data_diff"
    /\ last.old_data # << >> /\ last.new_data # << >>
    /\ "primary_record" \in DOMAIN last.old_data
    /\ "primary_record" \in DOMAIN last.new_data
    /\ last.old_data.primary_record # last.new_data.primary_record
    /\ DOMAIN last.res.details = {}
    /\ last.res.summary = << NoSignificantChanges >>

\* ------------------------------------------------------------------ claims on lookups
\* the rows of a store that a step takes away or replaces
C25_Gone(store, store_after) == store \ store_after

\* a step that takes a row away is a sweep or an invalidation, or a store that
\* puts another row under the same key
C25_OnlyWritersRemove(store, store_after) ==
    \A r \in C25_Gone(store, store_after) :
       \/ last'.op \in {"cleanup_expired", "invalidate", "invalidate_all", "clear_cache"}
       \/ /\ last'.op \in {"set", "save_summary", "save_recommendation", "summarize",
                           "recommend"}
          /\ \E q \in store_after : q.cache_key = r.cache_key

\* C25 (lookups are read-only, expiry is lazy): get, has_changed,
\* get_cached_summary and get_cached_recommendation leave every store as it
\* was, whatever they return; a row, expired or not, leaves a store only through
\* a sweep, an invalidation or a store that replaces it.
C25_LookupsReadOnly ==
    [][ /\ last'.op \in {"get", "has_changed", "get_cached_summary",
                         "get_cached_recommendation"}
              => UNCHANGED <<rawStore, sumStore, recStore>>
        /\ C25_OnlyWritersRemove(rawStore, rawStore')
        /\ C25_OnlyWritersRemove(sumStore, sumStore')
        /\ C25_OnlyWritersRemove(recStore, recStore') ]_vars

\* a lookup that missed because the row of its key has expired; the row is
\* still in the store
C25_Witness ==
    /\ last.op = "get"
    /\ last.res = << >>
    /\ \E r \in rawStore :
          /\ r.cache_key = _make_cache_key(last.source, last.entity_type, last.entity_id)
          /\ FromIsoFormat(r.expires_at) <= now

\* the same for the summary cache: a row past its TTL is not served as fresh
\* and stays in the store
C25_Witness_Summary ==
    /\ last.op = "get_cached_summary"
    /\ last.res # << >>
    /\ ~last.res[1].is_fresh
    /\ \E r \in sumStore :
          /\ r.cache_key = SummaryCacheKey(last.enriched_data, _compute_prompt_hash(last.prompt))
          /\ now - FromIsoFormat(r.generated_at) >= ttlConf * MinutesPerHour

SummarizeCall(pc, use_cache, enriched_data, force_refresh, cache_result, diff, response, done) ==
    [pc |-> pc, use_cache |-> use_cache, enriched_data |-> enriched_data,
     force_refresh |-> force_refresh, cache_result |-> cache_result, diff |-> diff,
     response |-> response, done |-> done]

\* the call returns: its result, and what it did on the way
SummarizeReturn(call, summary, done) ==
    [op |-> "summarize", enriched_data |-> call.enriched_data, use_cache |-> call.use_cache,
     force_refresh |-> call.force_refresh, res |-> summary,
     cache_result |-> call.cache_result, diff |-> call.diff, done |-> done]

\* summarize(enriched_data, force_refresh=...) is called
SummarizeEnter(p, use_cache, enriched_data, force_refresh) ==
    /\ inst = "summary"
    /\ calls[p] = NoCall
    /\ calls' = [calls EXCEPT ![p] = SummarizeCall("lookup", use_cache, enriched_data,
                                                   force_refresh, << >>, << >>, "", << >>)]
    /\ last' = Idle
    /\ UNCHANGED <<inst, now, rawStore, sumStore, recStore, ttlConf, arg, parsing, debugFile,
                   commits>>

\* a mutant of AfterLookup: the generation call is made whatever the lookup gave
AlwaysGenerate(cache_result) == "generate"

\* lines 75-94: what follows the lookup: a fresh artifact is returned at once;
\* a stale one with a (non-empty) stored snapshot is diffed; otherwise the
\* generation call comes next
AfterLookup(cache_result) ==
    IF cache_result = << >> THEN "generate"
    ELSE IF cache_result[1].is_fresh THEN "return"
    ELSE IF cache_result[1].previous # << >> /\ cache_result[1].previous[1] # << >>
    THEN "diff"
    ELSE "generate"

\* lines 72-88: the lookup, when there is a cache and no refresh is forced
SummarizeLookup(p) ==
    /\ inst = "summary"
    /\ calls[p].pc = "lookup"
    /\ LET call == calls[p]
       IN  IF call.use_cache /\ ~call.force_refresh
           THEN LET cache_result == GetCachedSummaryResult(sumStore, now, ttlConf,
                                                           call.enriched_data, DefaultPrompt)
                    looked == [call EXCEPT !.cache_result = cache_result,
                                           !.done = Append(call.done, "lookup")]
                IN  IF AfterLookup(cache_result) = "return"
                    THEN /\ calls' = [calls EXCEPT ![p] = NoCall]
                         /\ last' = SummarizeReturn(looked,
                                       [cache_result[1].artifact EXCEPT !.is_cached = TRUE],
                                       looked.done)
                    ELSE /\ calls' = [calls EXCEPT ![p] =
                                         [looked EXCEPT !.pc = AfterLookup(cache_result)]]
                         /\ last' = last
           ELSE /\ calls' = [calls EXCEPT ![p] = [call EXCEPT !.pc = "generate"]]
                /\ last' = last
    /\ UNCHANGED <<inst, now, rawStore, sumStore, recStore, ttlConf, arg, parsing, debugFile,
                   commits>>

\* lines 91-94: the diff of the stored snapshot against the new one
SummarizeDiff(p) ==
    /\ inst = "summary"
    /\ calls[p].pc = "diff"
    /\ LET call == calls[p]
           diff == compute_enriched_data_diff(call.cache_result[1].previous[1],
                                              call.enriched_data)
       IN  calls' = [calls EXCEPT ![p] = [call EXCEPT !.pc = "generate",
                                                      !.diff = << diff >>,
                                                      !.done = Append(call.done, "diff")]]
    /\ last' = last
    /\ UNCHANGED <<inst, now, rawStore, sumStore, recStore, ttlConf, arg, parsing, debugFile,
                   commits>>

\* lines 96-116: the prompts are built and the generation call is made; an
\* empty response ends the call with the fallback summary; without a cache the
\* new summary is returned
SummarizeGenerate(p, response) ==
    /\ inst = "summary"
    /\ calls[p].pc = "generate"
    /\ LET call == calls[p]
           done == Append(call.done, "generate")
       IN  IF response = ""
           THEN /\ calls' = [calls EXCEPT ![p] = NoCall]
                /\ last' = SummarizeReturn(call, _build_fallback_summary(now, call.enriched_data),
                                           done)
           ELSE IF call.use_cache
           THEN /\ calls' = [calls EXCEPT ![p] = [call EXCEPT !.pc = "store",
                                                               !.response = response,
                                                               !.done = done]]
                /\ last' = last
           ELSE /\ calls' = [calls EXCEPT ![p] = NoCall]
                /\ last' = SummarizeReturn(call, NewSummary(now, call.enriched_data, response),
                                           done)
    /\ UNCHANGED <<inst, now, rawStore, sumStore, recStore, ttlConf, arg, parsing, debugFile,
                   commits>>

\* lines 148-152: the new summary is saved and returned
SummarizeStore(p) ==
    /\ inst = "summary"
    /\ calls[p].pc = "store"
    /\ LET call == calls[p]
           summary == NewSummary(now, call.enriched_data, call.response)
       IN  /\ sumStore' = SaveSummaryStore(sumStore, now, call.enriched_data, summary,
                                           DefaultPrompt)
           /\ calls' = [calls EXCEPT ![p] = NoCall]
           /\ last' = SummarizeReturn(call, summary, Append(call.done, "store"))
    /\ UNCHANGED <<inst, now, rawStore, recStore, ttlConf, arg, parsing, debugFile, commits>>

\* time passes between calls
BetweenCalls ==
    /\ \A p \in Procs : calls[p] = NoCall
    /\ Advance

NextSummarizer ==
    \/ BetweenCalls
    \/ \E c \in BOOLEAN, e \in Snapshots \cup {Snap("won", "t2", "r1")}, f \in BOOLEAN :
          SummarizeEnter("p1", c, e, f)
    \/ SummarizeLookup("p1")
    \/ SummarizeDiff("p1")
    \/ \E r \in Responses : SummarizeGenerate("p1", r)
    \/ SummarizeStore("p1")

InitSummarizer == InitCache /\ inst = "summary"
SpecSummarizer == InitSummarizer /\ [][NextSummarizer]_vars

\* ------------------------------------------------------------------ claims on the order of the steps of summarize

\* the steps a call has done appear in the order lookup, diff, generate, store
C24_InOrder(done) ==
    LET Place(step) == CASE step = "lookup" -> 1 [] step = "diff" -> 2
                         [] step = "generate" -> 3 [] step = "store" -> 4
    IN  \A i, j \in 1..Len(done) : i < j => Place(done[i]) < Place(done[j])

C24_Did(done, step) == \E i \in 1..Len(done) : done[i] = step

\* what the steps done so far must look like, given the arguments of the call
\* and what its lookup returned
C24_Ordered(use_cache, force_refresh, enriched_data, cache_result, diff, done) ==
    LET fresh == cache_result # << >> /\ cache_result[1].is_fresh
        stale == cache_result # << >> /\ ~cache_result[1].is_fresh
    IN  /\ C24_InOrder(done)
        /\ done # << >> => (C24_Did(done, "lookup") <=> (use_cache /\ ~force_refresh))
        /\ ~C24_Did(done, "lookup") => cache_result = << >>
        /\ C24_Did(done, "generate") => ~fresh
        /\ fresh => done = << "lookup" >>
        /\ (stale /\ C24_Did(done, "generate"))
              => /\ C24_Did(done, "diff")
                 /\ diff = << compute_enriched_data_diff(cache_result[1].previous[1],
                                                         enriched_data) >>
        /\ ~stale => (~C24_Did(done, "diff") /\ diff = << >>)
        /\ C24_Did(done, "store") => (C24_Did(done, "generate") /\ use_cache)

\* C24: in DealSummarizer.summarize the cache is looked up first (when there is
\* one and no refresh is forced); the generation call is made only when the
\* lookup was not fresh; on a stale lookup the diff of the stored snapshot
\* against the new one is computed before the generation call, and on a miss
\* no diff is computed; the store happens only after the generation call.
\* Holds at every point of a call and at its return.
C24_OrchestrationOrder ==
    /\ \A p \in Procs :
          calls[p] # NoCall
             => C24_Ordered(calls[p].use_cache, calls[p].force_refresh,
                            calls[p].enriched_data, calls[p].cache_result, calls[p].diff,
                            calls[p].done)
    /\ last.op = "summarize"
          => /\ C24_Ordered(last.use_cache, last.force_refresh, last.enriched_data,
                            last.cache_result, last.diff, last.done)
             /\ last.done # << >>
             /\ (~C24_Did(last.done, "generate")) => last.res.is_cached

\* a stale lookup with changed data: all four steps, in order
C24_Witness ==
    /\ last.op = "summarize"
    /\ last.done = << "lookup", "diff", "generate", "store" >>
    /\ "primary_record" \in DOMAIN last.diff[1].details

\* a miss: no diff between the lookup and the generation call
C24_Witness_Miss ==
    /\ last.op = "summarize"
    /\ last.cache_result = << >>
    /\ last.done = << "lookup", "generate", "store" >>

\* a fresh artifact: the lookup only
C24_Witness_Fresh ==
    /\ last.op = "summarize"
    /\ last.done = << "lookup" >>
    /\ last.res.is_cached

\* a forced refresh over a stored artifact: no lookup
C24_Witness_Forced ==
    /\ last.op = "summarize"
    /\ last.force_refresh /\ last.use_cache
    /\ last.done = << "generate", "store" >>
    /\ sumStore # {}

====
